---- MODULE Spec2Model ----
(***************************************************************************)
(* Verification model of the headline content scraper: the scrape_jobs     *)
(* queue (headline_api/db.py), the worker runtime                          *)
(* (headline_worker/__main__.py), the article and source pipelines         *)
(* (headline_worker/modules/article_processor.py, source_processor.py),    *)
(* the processed-URL store and the Diffbot key manager                     *)
(* (headline_worker/modules/link_collector.py).                            *)
(***************************************************************************)
EXTENDS Integers, Sequences, FiniteSets, TLC

(***************************************************************************)
(* Bounds of the model.                                                    *)
(***************************************************************************)
NumWorkers == 2      \* worker processes polling the same queue
MaxJobs == 2         \* rows the API layer enqueues in scrape_jobs
MaxQueued == 3       \* QUEUED rows the claim-only specification starts with
MaxClaimCalls == 3   \* claim() calls per worker in the claim-only specification
NumCallers == 2      \* concurrent requesters of the key manager
ClockStep == 30      \* seconds added by one tick of the clock
MaxClock == 90       \* last clock value explored
MaxKeyCalls == 12    \* keys handed out by the key manager in one behaviour

Workers == 1..NumWorkers
Callers == 1..NumCallers

\* min(a, b)
MinOf(a, b) == IF a <= b THEN a ELSE b

(***************************************************************************)
(* URL utility.  A URL is modelled in the form urlparse() gives it.  The   *)
(* scheme is a token, the netloc the tuple of its dot-separated labels,    *)
(* the path the tuple of the segments that follow each "/" (so "/x/" is    *)
(* <<"x", "">>, "/" is <<"">> and the empty path is <<>>), the query a     *)
(* tuple of <<key, value>> pairs and the fragment a token ("" when the URL *)
(* has none).  A query token is the text between two delimiters, with its  *)
(* percent escapes as written: "%23" is an escaped "#", "%2523" an escaped *)
(* "%23", "1%26ref%3D2" an escaped "1&ref=2" and "utm%5Fsource" an escaped *)
(* "utm_source".                                                           *)
(***************************************************************************)
LowerTok(t) ==
    CASE t = "HTTP" -> "http" [] t = "HTTPS" -> "https" [] t = "WWW" -> "www"
      [] t = "A" -> "a" [] t = "CO" -> "co" [] t = "NEWS" -> "news"
      [] t = "CivicAlerts.aspx" -> "civicalerts.aspx" [] OTHER -> t

Lower(s) == [i \in 1..Len(s) |-> LowerTok(s[i])]

\* str.rstrip('/') on a path: the trailing empty segments go.
RECURSIVE RStripSlash(_)
RStripSlash(s) ==
    IF s # <<>> /\ s[Len(s)] = "" THEN RStripSlash(SubSeq(s, 1, Len(s) - 1)) ELSE s

\* The query tokens of the model in Python's string order.
TokenOrder == <<"", "#", "%23", "%2523", "1", "1%26ref%3D2", "1&ref=2", "2", "a", "id",
               "ref", "utm%5Fsource", "utm_source">>
Rank(t) == CHOOSE i \in 1..Len(TokenOrder) : TokenOrder[i] = t

tracking_params == {"utm_source", "utm_medium", "utm_campaign", "utm_term", "utm_content",
                    "fbclid", "gclid", "_ga", "ref", "source"}

PairLeq(p, q) == Rank(p[1]) < Rank(q[1]) \/ (p[1] = q[1] /\ Rank(p[2]) <= Rank(q[2]))

RemoveAt(s, i) == SubSeq(s, 1, i - 1) \o SubSeq(s, i + 1, Len(s))

RECURSIVE SortPairs(_)
SortPairs(ps) ==
    IF ps = <<>> THEN <<>>
    ELSE LET i == CHOOSE k \in 1..Len(ps) : \A m \in 1..Len(ps) : PairLeq(ps[k], ps[m])
         IN  <<ps[i]>> \o SortPairs(RemoveAt(ps, i))

\* urllib.parse.unquote on a query token.
Unquote(t) ==
    CASE t = "%23" -> "#" [] t = "%2523" -> "%23" [] t = "1%26ref%3D2" -> "1&ref=2"
      [] t = "utm%5Fsource" -> "utm_source" [] OTHER -> t

\* parse_qs drops the pairs whose value is blank and unquotes the others.
parse_qs(query) ==
    LET kept == SelectSeq(query, LAMBDA p : p[2] # "")
    IN  [i \in 1..Len(kept) |-> <<Unquote(kept[i][1]), Unquote(kept[i][2])>>]

CanonQuery(query) ==
    SortPairs(SelectSeq(parse_qs(query), LAMBDA p : LowerTok(p[1]) \notin tracking_params))

canonicalize_url(url) ==
    LET netloc == Lower(url.netloc)
        path == RStripSlash(url.path)
    IN  [scheme |-> LowerTok(url.scheme),
         netloc |-> IF Len(netloc) >= 2 /\ netloc[1] = "www" THEN Tail(netloc) ELSE netloc,
         path |-> IF path = <<>> THEN <<"">> ELSE path,
         query |-> CanonQuery(url.query),
         fragment |-> ""]

\* The query of the text "k1=v1&k2=v2..." as urlparse and parse_qsl split
\* it: a "#" in a value ends the query, an "&" and "=" in a value start a
\* new pair.
RECURSIVE SplitQuery(_)
SplitQuery(items) ==
    IF items = <<>> THEN <<>>
    ELSE LET k == Head(items)[1]
             v == Head(items)[2]
         IN  CASE v = "#" -> << <<k, "">> >>
               [] v = "1&ref=2" -> << <<k, "1">>, <<"ref", "2">> >> \o SplitQuery(Tail(items))
               [] OTHER -> << <<k, v>> >> \o SplitQuery(Tail(items))

\* The text that follows the first "#" of the query text: "" or, for the
\* model, the token "rest".
RECURSIVE QueryFragment(_)
QueryFragment(items) ==
    IF items = <<>> THEN ""
    ELSE IF Head(items)[2] = "#" THEN (IF Tail(items) = <<>> THEN "" ELSE "rest")
    ELSE QueryFragment(Tail(items))

\* urlparse(urlunparse((scheme, netloc, path, '', query, fragment))): the URL
\* a caller gets when it parses the text canonicalize_url returned.
Reparse(parts) ==
    [scheme |-> parts.scheme, netloc |-> parts.netloc,
     path |-> parts.path,
     query |-> SplitQuery(parts.query),
     fragment |-> IF \E i \in 1..Len(parts.query) : parts.query[i][2] = "#"
                  THEN QueryFragment(parts.query) ELSE parts.fragment]

\* The URLs of the model: HTTP://WWW.a.co/x/#f, http://a.co/x, http://a.co/y
\* and http://a.co/about.
UrlUpper == [scheme |-> "HTTP", netloc |-> <<"WWW", "a", "co">>, path |-> <<"x", "">>,
             query |-> <<>>, fragment |-> "f"]
UrlPlain == [scheme |-> "http", netloc |-> <<"a", "co">>, path |-> <<"x">>,
             query |-> <<>>, fragment |-> ""]
UrlOther == [scheme |-> "http", netloc |-> <<"a", "co">>, path |-> <<"y">>,
             query |-> <<>>, fragment |-> ""]
UrlAbout == [scheme |-> "http", netloc |-> <<"a", "co">>, path |-> <<"about">>,
             query |-> <<>>, fragment |-> ""]

RawUrls == {UrlUpper, UrlPlain, UrlOther, UrlAbout}
CanonUrls == {canonicalize_url(u) : u \in RawUrls}

(***************************************************************************)
(* Article-URL validation (url_utils.is_valid_article_url).  Each pattern  *)
(* list holds the tokens its patterns match among the tokens of the model: *)
(* a path pattern "/p" is the segment token "p", a host pattern "p." the   *)
(* label "p" before another label, a query pattern "p=" the key "p", and a *)
(* file extension is carried by the segment token "doc.pdf".               *)
(***************************************************************************)
NON_CONTENT_EXTENSIONS == {"doc.pdf"}

STATIC_MEDIA_PATTERNS == {"images", "img", "cdn", "static", "image", "media", "assets",
                          "videos", "video", "pics", "photos", "thumbs", "thumbnail", "mcdn",
                          "foxtv", "q13fox"}

SKIP_QUERY_PARAMS == {"print", "share", "format", "output", "view", "action", "filter",
                      "sort", "search", "query", "page", "ref"}

SOCIAL_HOSTS == {"facebook", "twitter", "instagram", "linkedin", "youtube", "tiktok",
                 "pinterest"}

SOCIAL_SHARING_PATTERNS == {"facebook", "twitter", "linkedin", "pinterest", "youtube"}

SECTION_PATHS == {"live", "news", "sports", "weather", "shows",
                  "about", "contact", "search", "tag", "category"}

GOV_SKIP_PATHS == {"city-government", "departments", "services", "business", "community",
                   "recreation", "permits", "utilities", "transportation", "city-council",
                   "mayor", "administration", "planning", "development", "police", "video",
                   "fire", "parks", "library", "municipal", "public-works", "discover",
                   "resident-resources", "newcomers-guide", "about", "contact", "faqs",
                   "meetings", "events", "calendar"}

NON_ARTICLE_PATHS == {"search", "tag", "category", "author", "about", "contact", "privacy",
                      "terms", "login", "register", "welcome", "public-safety", "subscribe",
                      "wp-admin", "wp-includes", "cdn-cgi", "emergency-preparedness",
                      "static", "media", "images", "css", "js", "fonts", "doing-business",
                      "assets", "weather", "traffic", "contests", "apps", "advertise",
                      "careers", "jobs", "staff", "newsletters", "subscription", "help",
                      "faq", "support", "calendar", "events", "directory", "classified",
                      "person", "winning-question", "marketplace", "shop", "donate",
                      "giving", "sponsors", "discover", "development-pipeline",
                      "development", "team", "pipeline", "projects", "construction",
                      "future-projects", "links-you-saw-on-tv", "eeo-report", "public-file",
                      "closed-captioning", "fcc-applications", "fcc-public-file",
                      "advertise-with-us", "station-info", "corporate-info", "legal",
                      "accessibility-statement"}

\* domain.replace('www.', ''): the www labels that another label follows go.
StripWww(n) ==
    IF n = <<>> THEN n
    ELSE SelectSeq(SubSeq(n, 1, Len(n) - 1), LAMBDA l : l # "www") \o <<n[Len(n)]>>

\* pattern in host, for the patterns "p.": a label of S that is not the last.
HostHas(n, S) == \E i \in 1..(Len(n) - 1) : n[i] \in S

is_valid_article_url(url, base_netloc) ==
    LET path == Lower(url.path)
        hostname == Lower(url.netloc)
        base_domain == StripWww(base_netloc)
        url_domain == StripWww(url.netloc)
        same_domain ==
            \/ url_domain = base_domain
            \/ /\ Len(url_domain) > Len(base_domain)
               /\ SubSeq(url_domain, Len(url_domain) - Len(base_domain) + 1, Len(url_domain))
                    = base_domain
        gov_allowed ==
            IF Len(path) >= 2 /\ path[1] = "city-news"
            THEN path[2] # ""
            ELSE ~ \/ path[Len(path)] \in {"home", "index"}
                   \/ Len(path) = 1 /\ path[1] = "city-news"
                   \/ path[1] \in GOV_SKIP_PATHS
    IN  /\ url.scheme \in {"http", "https"}
        /\ path # <<"">> /\ path # <<>> /\ url.fragment = ""
        /\ ~(url.query = <<>> /\ url.path[Len(url.path)] \in NON_CONTENT_EXTENSIONS)
        /\ ~HostHas(hostname, STATIC_MEDIA_PATTERNS)
        /\ ~\E i \in 1..Len(url.query) : url.query[i][1] \in SKIP_QUERY_PARAMS
        /\ ~\E i \in 1..Len(path) : path[i] \in SOCIAL_SHARING_PATTERNS
        /\ ~(HostHas(hostname, SOCIAL_HOSTS) /\ hostname[Len(hostname)] = "com")
        /\ ~(Len(path) = 1 /\ path[1] \in SECTION_PATHS)
        /\ (\E i \in 2..Len(hostname) : hostname[i] = "gov") => gov_allowed
        /\ path[1] \notin NON_ARTICLE_PATHS
        /\ same_domain \/ HostHas(url_domain, STATIC_MEDIA_PATTERNS)

\* non_news_patterns holds '/about', '/contact', '/privacy', '/terms', ... as
\* substrings of the URL: a path segment that starts with one of them.
non_news_patterns == {"privacy", "terms", "contact", "about", "advertise", "sitemap",
                      "feed", "rss", "api"}

is_meaningful_content(url) ==
    /\ is_valid_article_url(url, url.netloc)
    /\ \A i \in 1..Len(url.path) : LowerTok(url.path[i]) \notin non_news_patterns

(***************************************************************************)
(* Job store: the processed_news_urls table.  A row is                     *)
(* [url, city, is_news, processing_status]; url carries a UNIQUE           *)
(* constraint named processed_news_urls_url_key.                           *)
(***************************************************************************)
NoStatus == "None"

\* The text of the exception psycopg2 raises for a violated constraint.
UniqueViolation(constraint) ==
    {"duplicate key value violates unique constraint", constraint}

ProcessedUrlConstraint == "processed_news_urls_url_key"

\* An insert that overwrites the row of the same url (ON CONFLICT DO UPDATE).
UpsertProcessedRow(table, row) ==
    [table |-> {r \in table : r.url # row.url} \cup {row}, error |-> {}]

\* INSERT INTO processed_news_urls: [table, error]; error is {} on success.
InsertProcessedRow(table, row) ==
    IF \E r \in table : r.url = row.url
    THEN [table |-> table, error |-> UniqueViolation(ProcessedUrlConstraint)]
    ELSE [table |-> table \cup {row}, error |-> {}]

\* A status_map whose lookup always misses and gives the default.
SaveStatusMapPending(status) == "pending"

\* status_map of save_processed_url, with its "pending" default.
SaveStatusMap(status) ==
    CASE status = "TRASH" -> "trash"
      [] status = "PROCESSED" -> "processed"
      [] OTHER -> "pending"

\* save_processed_url(url, status, city): [table, raised].
save_processed_url(table, url, status, city) ==
    LET ins == InsertProcessedRow(table, [url |-> url, city |-> city,
                                          is_news |-> (status # "TRASH"),
                                          processing_status |-> SaveStatusMap(status)])
    IN  IF ins.error = {} THEN [table |-> ins.table, raised |-> FALSE]
        ELSE IF /\ "duplicate key value violates unique constraint" \in ins.error
                /\ "processed_news_urls_url_key" \in ins.error
             THEN [table |-> table, raised |-> FALSE]
             ELSE [table |-> table, raised |-> TRUE]

\* status_map of check_processed_url; an unknown stored status gives None.
CheckStatusMap(stored) ==
    CASE stored = "trash" -> "TRASH"
      [] stored = "done" -> "PROCESSED"
      [] stored = "processed" -> "PROCESSED"
      [] OTHER -> NoStatus

\* A lookup that never finds the URL.
CheckNeverSeen(table, url) == NoStatus

check_processed_url(table, url) ==
    IF \E r \in table : r.url = url
    THEN CheckStatusMap((CHOOSE r \in table : r.url = url).processing_status)
    ELSE NoStatus

(***************************************************************************)
(* The classifier.  classify_content is declared with two parameters; the  *)
(* article pipeline and the source pipeline call it with three arguments.  *)
(***************************************************************************)
ClassifierParams == 2
ArticleClassifyArgs == 3
SourceClassifyArgs == 3

Labels == {"trash", "global", "city"}

\* The outcomes of a call of classify_content with nargs arguments.
ClassifyCall(nargs) == IF nargs = ClassifierParams THEN Labels ELSE {"TypeError"}

(***************************************************************************)
(* State.                                                                  *)
(***************************************************************************)
VARIABLES
    jobs,        \* scrape_jobs: the row with id i is jobs[i]
    claimTx,     \* per worker: the row its open claim transaction has locked, or 0
    claimCount,  \* history: how many claim() calls have returned the row with id i
    wpc,         \* per worker: where the worker process is
    wjob,        \* per worker: the id of the job claim() returned to it, or 0
    ctx,         \* per worker: the locals of the pipeline it is executing
    atBoot,      \* history, per worker: the ids its startup sweep found QUEUED or IN_PROGRESS
    processed,   \* processed_news_urls: a set of rows
    articles,    \* news_articles: the rows in insertion order
    lastSave,    \* history: the last direct save_processed_url call and what it found
    inserted,    \* history: the <<url, status>> pairs whose save_processed_url inserted a row
    calls,       \* history, per worker: the claim() calls it has made
    usage,       \* DiffbotKeyManager.usage: per key, the timestamps kept
    issued,      \* history: per key, the timestamps of every get_key that returned it
    clock,       \* datetime.now(), in seconds
    kmOut,       \* per caller: what its last get_key call did
    last_scraped_at, \* bighippo_sources.last_scraped_at per source id: 0 is NULL
    running,     \* per worker: the running flag of its process
    resumed,     \* history, per worker: it was started with --resume-jobs
    rt,          \* the locals of one call through retry_with_backoff, and its history
    fn           \* one call of a function: its arguments, its locals and its result

qvars == <<jobs, claimTx, claimCount, wpc, wjob, ctx, atBoot>>
dbvars == <<processed, articles>>
storeG == <<lastSave, inserted>>
keyV == <<usage, issued, clock, kmOut>>
envV == <<last_scraped_at, running, resumed, rt, fn>>
vars == <<jobs, claimTx, claimCount, wpc, wjob, ctx, atBoot, processed, articles,
          lastSave, inserted, calls, usage, issued, clock, kmOut,
          last_scraped_at, running, resumed, rt, fn>>

(***************************************************************************)
(* Jobs and payloads.                                                      *)
(***************************************************************************)
NoUrl == [scheme |-> "", netloc |-> <<>>, path |-> <<>>, query |-> <<>>, fragment |-> ""]

\* A payload with none of the keys the handlers read.
NoPayload ==
    [url |-> NoUrl, source_id |-> "none", pre |-> FALSE, text |-> "none", cls |-> "none",
     limit |-> 0, source_table |-> "bighippo_sources", batch_size |-> 0, dry_run |-> FALSE,
     sources |-> <<>>]

\* The payload POST /scrape-article enqueues: {url, source_id}.
ApiArticle(u) == [NoPayload EXCEPT !.url = u]
\* A payload that carries a classification but no pre-extracted content.
ClassifiedArticle(u, c) == [NoPayload EXCEPT !.url = u, !.cls = c]
\* The payload of a source pipeline's fan-out: title, text, metadata and classification.
PreArticle(u, sid, t, c) ==
    [NoPayload EXCEPT !.url = u, !.source_id = sid, !.pre = TRUE, !.text = t, !.cls = c]
\* The payload of a SOURCE job that names a source of the primary table.
SourcePayload(sid, l) == [NoPayload EXCEPT !.source_id = sid, !.limit = l]
\* The payload of a SOURCE job a MULTIPLE_SOURCES job enqueues.
SourcePayloadIn(sid, table, l) ==
    [NoPayload EXCEPT !.source_id = sid, !.source_table = table, !.limit = l]
\* The payload POST /process-sources enqueues: {batch_size, query, dry_run}.
BatchPayload(n, dry) == [NoPayload EXCEPT !.batch_size = n, !.dry_run = dry]
\* The payload POST /scrape-multiple-sources enqueues: {sources, dry_run}.
MultiPayload(srcs, dry) == [NoPayload EXCEPT !.sources = srcs, !.dry_run = dry]

\* One entry of a sources list: {source_id, source_table, limit}.
SourceInfo(sid, table, l) == [source_id |-> sid, source_table |-> table, limit |-> l]

ArticlePayloads == {ApiArticle(UrlUpper), ClassifiedArticle(UrlUpper, "city"),
                    PreArticle(UrlPlain, "none", "long", "global"),
                    PreArticle(UrlPlain, "none", "long", "trash")}
SourcePayloads == {SourcePayload("s1", 1)}
\* SOURCE payloads that carry a url, for a source with no URL and for an id
\* that no table holds.
UrlSourcePayloads == {[SourcePayload("s2", 1) EXCEPT !.url = UrlAbout],
                      [SourcePayload("s9", 1) EXCEPT !.url = UrlAbout]}
\* The payload POST /scrape-source enqueues for a request with no source_id:
\* {url, limit}.
UrlOnlySourcePayload == [NoPayload EXCEPT !.url = UrlAbout, !.limit = 1]
BatchPayloads == {BatchPayload(2, FALSE), BatchPayload(1, TRUE)}
MultiPayloads == {MultiPayload(<<SourceInfo("s1", "bighippo_sources", 1),
                                 SourceInfo("s2", "bighippo_sources", 1),
                                 SourceInfo("c9", "city_sources", 1)>>, FALSE),
                  MultiPayload(<<SourceInfo("s1", "bighippo_sources", 1)>>, TRUE)}

\* The source tables: bighippo_sources holds s1 (with a URL) and s2 (with
\* none), city_sources holds c7; any other id is missing.
SourceIds == {"s1", "s2"}

get_source_by_id(sid, table) ==
    CASE table = "bighippo_sources" /\ sid = "s1" -> [found |-> TRUE, url |-> UrlAbout]
      [] table = "bighippo_sources" /\ sid = "s2" -> [found |-> TRUE, url |-> NoUrl]
      [] table = "city_sources" /\ sid = "c7" -> [found |-> TRUE, url |-> UrlAbout]
      [] OTHER -> [found |-> FALSE, url |-> NoUrl]

\* What collect_links may return for a source page (at most 2 * limit links).
LinkLists == {<<>>, <<UrlAbout, UrlOther>>, <<UrlPlain, UrlOther>>}

Counters == {"links_found", "links_skipped", "articles_saved", "errors"}

NewJob(t, p) ==
    [job_type |-> t, payload |-> p, status |-> "queued", error_message |-> "",
     links_found |-> 0, links_skipped |-> 0, articles_saved |-> 0, errors |-> 0]

Terminal == {"done", "error", "cancelled"}
RestartMessage == "Job cancelled due to worker restart"

\* The job_id argument of process_source: the integer id of the claimed job,
\* or the string a batch passes, str(source_id).
JobIdArg(n, str) == [int |-> n, str |-> str]

\* An int() that reads every string as the id of the first job.
IntOfDigits(str) == 1

\* int(job_id) of a string: the ids of bighippo_sources are UUID strings, for
\* which int() raises ValueError (0 here).
IntOfString(str) == 0

\* job_id_int of process_source; 0 when int() raised ValueError.
ParseJobId(a) == IF a.str = "" THEN a.int ELSE IntOfString(a.str)

\* limit of the source payload a batch builds
BatchSourceLimit == 15

NoCtx == [job |-> 0, payload |-> ApiArticle(NoUrl), canon |-> NoUrl, cls |-> "none",
          inline |-> FALSE, links |-> <<>>, proc |-> 0, skip |-> 0, err |-> 0, msg |-> "",
          seen |-> FALSE, extracted |-> FALSE, total |-> 0, clean |-> TRUE,
          src |-> SourceInfo("none", "bighippo_sources", 0), cjob |-> JobIdArg(0, ""),
          stamped |-> FALSE, inbatch |-> FALSE, srcs |-> <<>>, sproc |-> 0, serr |-> 0]

\* A row another transaction has locked makes a writer wait.
RowFree(j) == \A w \in Workers : claimTx[w] # j

(***************************************************************************)
(* Job store: scrape_jobs.                                                 *)
(***************************************************************************)
\* An insert whose row is already IN_PROGRESS.
EnqueueInProgress(js, t, p) == Append(js, [NewJob(t, p) EXCEPT !.status = "in_progress"])

\* enqueue_job: INSERT ... RETURNING id.
enqueue_job(js, t, p) == Append(js, NewJob(t, p))

\* update_job_status: UPDATE ... WHERE id = job_id, whatever the row's status.
update_job_status(js, job_id, status, error_message) ==
    IF job_id \in DOMAIN js
    THEN [js EXCEPT ![job_id].status = status,
                    ![job_id].error_message = IF error_message # "" THEN error_message ELSE @]
    ELSE js

\* An update that writes the whole counter set: a counter the map does not
\* name goes back to 0.
ReplaceJobCounters(js, job_id, counters) ==
    IF job_id \in DOMAIN js
    THEN [js EXCEPT ![job_id] = [f \in DOMAIN @ |->
                                   IF f \in DOMAIN counters THEN counters[f]
                                   ELSE IF f \in Counters THEN 0 ELSE @[f]]]
    ELSE js

\* update_job_counters: sets the counters named in the map.
update_job_counters(js, job_id, counters) ==
    IF job_id \in DOMAIN js
    THEN [js EXCEPT ![job_id] = [f \in DOMAIN @ |->
                                   IF f \in DOMAIN counters THEN counters[f] ELSE @[f]]]
    ELSE js

\* mark_job_done and mark_job_error of the worker: UPDATE ... WHERE id = job_id.
mark_job_done(js, job_id) ==
    IF job_id \in DOMAIN js THEN [js EXCEPT ![job_id].status = "done"] ELSE js

mark_job_error(js, job_id, error) ==
    IF job_id \in DOMAIN js
    THEN [js EXCEPT ![job_id].status = "error", ![job_id].error_message = error]
    ELSE js

\* A sub-select without SKIP LOCKED: it does not pass over locked rows.
ClaimCandidateNoSkip(js, locked) ==
    LET free == {j \in DOMAIN js : js[j].status = "queued"}
    IN  IF free = {} THEN 0 ELSE CHOOSE j \in free : \A k \in free : j <= k

\* The sub-select of claim_job: the QUEUED row with the lowest id among those
\* no other transaction has locked (FOR UPDATE SKIP LOCKED); 0 if there is none.
ClaimCandidate(js, locked) ==
    LET free == {j \in DOMAIN js : js[j].status = "queued" /\ j \notin locked}
    IN  IF free = {} THEN 0 ELSE CHOOSE j \in free : \A k \in free : j <= k

LockedRows == {claimTx[w] : w \in Workers} \ {0}

(***************************************************************************)
(* API layer: a producer enqueues a job.                                   *)
(***************************************************************************)
Enqueue ==
    /\ Len(jobs) < MaxJobs
    /\ \E t \in {"article", "source"} :
         \E p \in (IF t = "article" THEN ArticlePayloads ELSE SourcePayloads) :
            jobs' = enqueue_job(jobs, t, p)
    /\ claimCount' = Append(claimCount, 0)
    /\ UNCHANGED <<claimTx, wpc, wjob, ctx, atBoot, dbvars, storeG, calls, keyV, envV>>

(***************************************************************************)
(* Worker runtime: main().                                                 *)
(***************************************************************************)
\* A start that runs the sweep whatever the flag says.
BootAlwaysSweeps(w) ==
    /\ wpc[w] = "down"
    /\ \E resume_jobs \in BOOLEAN :
         /\ wpc' = [wpc EXCEPT ![w] = "sweep_select"]
         /\ resumed' = [resumed EXCEPT ![w] = resume_jobs]
    /\ atBoot' = [atBoot EXCEPT ![w] = {}]
    /\ UNCHANGED <<jobs, claimTx, claimCount, wjob, ctx, dbvars, storeG, calls, keyV,
                   last_scraped_at, running, rt, fn>>

\* The process starts; with --resume-jobs it goes straight to polling.
Boot(w) ==
    /\ wpc[w] = "down"
    /\ \E resume_jobs \in BOOLEAN :
         /\ wpc' = [wpc EXCEPT ![w] = IF resume_jobs THEN "poll" ELSE "sweep_select"]
         /\ resumed' = [resumed EXCEPT ![w] = resume_jobs]
    /\ atBoot' = [atBoot EXCEPT ![w] = {}]
    /\ UNCHANGED <<jobs, claimTx, claimCount, wjob, ctx, dbvars, storeG, calls, keyV,
                   last_scraped_at, running, rt, fn>>

\* cleanup_old_jobs, the SELECT: job_ids, the QUEUED and IN_PROGRESS rows found.
SweepSelect(w) ==
    /\ wpc[w] = "sweep_select"
    /\ LET job_ids == {j \in DOMAIN jobs : jobs[j].status \in {"queued", "in_progress"}}
       IN  /\ atBoot' = [atBoot EXCEPT ![w] = job_ids]
           /\ wpc' = [wpc EXCEPT ![w] = IF job_ids # {} THEN "sweep_update" ELSE "poll"]
    /\ UNCHANGED <<jobs, claimTx, claimCount, wjob, ctx, dbvars, storeG, calls, keyV, envV>>

\* cleanup_old_jobs, the UPDATE ... WHERE status IN (queued, in_progress); it
\* waits for the rows an open claim transaction has locked.
cleanup_old_jobs(js) ==
    [j \in DOMAIN js |->
        IF js[j].status \in {"queued", "in_progress"}
        THEN [js[j] EXCEPT !.status = "cancelled", !.error_message = RestartMessage]
        ELSE js[j]]

SweepUpdate(w) ==
    /\ wpc[w] = "sweep_update"
    /\ LockedRows = {}
    /\ jobs' = cleanup_old_jobs(jobs)
    /\ wpc' = [wpc EXCEPT ![w] = "poll"]
    /\ UNCHANGED <<claimTx, claimCount, wjob, ctx, atBoot, dbvars, storeG, calls, keyV, envV>>

\* claim_job, the statement: the sub-select locks its row; with no candidate
\* the call returns None and the worker polls again.
ClaimSelect(w) ==
    /\ wpc[w] = "poll"
    /\ running[w]
    /\ LET j == ClaimCandidate(jobs, LockedRows)
       IN  IF j = 0
           THEN UNCHANGED <<claimTx, wpc>>
           ELSE /\ claimTx' = [claimTx EXCEPT ![w] = j]
                /\ wpc' = [wpc EXCEPT ![w] = "claim_tx"]
    /\ UNCHANGED <<jobs, claimCount, wjob, ctx, atBoot, dbvars, storeG, keyV, envV>>

\* claim_job, the commit: the row is IN_PROGRESS and is returned.
ClaimCommit(w) ==
    /\ wpc[w] = "claim_tx"
    /\ jobs' = [jobs EXCEPT ![claimTx[w]].status = "in_progress"]
    /\ claimCount' = [claimCount EXCEPT ![claimTx[w]] = @ + 1]
    /\ wjob' = [wjob EXCEPT ![w] = claimTx[w]]
    /\ claimTx' = [claimTx EXCEPT ![w] = 0]
    /\ wpc' = [wpc EXCEPT ![w] = "claimed"]
    /\ UNCHANGED <<ctx, atBoot, dbvars, storeG, calls, keyV, envV>>

\* An exception leaves a pipeline: process_source counts it for an article it
\* ran inline, process_batch counts it for a source it ran, process_job marks
\* the job ERROR otherwise.
Raise(w, c, msg) ==
    IF c.inline
    THEN /\ ctx' = [ctx EXCEPT ![w] = [c EXCEPT !.err = @ + 1, !.inline = FALSE]]
         /\ wpc' = [wpc EXCEPT ![w] = "src_loop"]
    ELSE IF c.inbatch
    THEN /\ ctx' = [ctx EXCEPT ![w] = [c EXCEPT !.serr = @ + 1]]
         /\ wpc' = [wpc EXCEPT ![w] = "batch_count"]
    ELSE /\ ctx' = [ctx EXCEPT ![w] = [c EXCEPT !.msg = msg]]
         /\ wpc' = [wpc EXCEPT ![w] = "handler_raise"]

\* process_source returns: to process_batch, which counts the source, or to
\* process_job.
SourceReturn(w, c) ==
    IF c.inbatch
    THEN /\ ctx' = [ctx EXCEPT ![w] = [c EXCEPT !.sproc = @ + 1]]
         /\ wpc' = [wpc EXCEPT ![w] = "batch_count"]
    ELSE /\ ctx' = [ctx EXCEPT ![w] = c]
         /\ wpc' = [wpc EXCEPT ![w] = "handler_ok"]

\* A source URL that prefers the url of the payload to that of the row.
PayloadUrlFirst(source_data, payload) ==
    IF payload.url # NoUrl THEN payload.url ELSE source_data.url

\* source_url as "if not source_url" tests it: the URL of the source row.  The
\* url of the payload replaces it only after the test.
SourceUrl(source_data, payload) == source_data.url

\* A pipeline that goes to the lookup whatever the payload holds.
NoSourceIdTest(src) == FALSE

\* if not source_id, on payload.get("source_id")
MissingSourceId(src) == src.source_id = "none"

\* process_source up to the link loop: the source row, its URL, collect_links.
SourcePrelude(w, c) ==
    IF MissingSourceId(c.src)
    THEN Raise(w, c, "Missing source_id in payload")
    ELSE IF ~get_source_by_id(c.src.source_id, c.src.source_table).found
    THEN Raise(w, c, "Source not found")
    ELSE IF SourceUrl(get_source_by_id(c.src.source_id, c.src.source_table), c.payload) = NoUrl
    THEN Raise(w, c, "Source has no URL")
    ELSE \* await collect_links(...) suspends the task; it raises, or returns
         \* a list of links
         /\ running[w]
         /\ \/ Raise(w, c, "Failed to collect links")
            \/ \E r \in LinkLists :
                 IF r = <<>>
                 THEN SourceReturn(w, c)
                 ELSE /\ ctx' = [ctx EXCEPT ![w] = [c EXCEPT !.links = r, !.total = Len(r)]]
                      /\ wpc' = [wpc EXCEPT ![w] = "src_loop"]

\* f"Unknown job type: {job_type}"
UnknownTypeMessage == "Unknown job type"

\* process_job: the dispatch on job_type, up to the handler's first store access.
Dispatch(w) ==
    /\ wpc[w] = "claimed"
    /\ LET job == jobs[wjob[w]]
           c == [NoCtx EXCEPT !.job = wjob[w], !.payload = job.payload]
       IN  CASE job.job_type = "article" ->
                  IF job.payload.url = NoUrl
                  THEN Raise(w, c, "Missing URL in job payload")
                  ELSE /\ ctx' = [ctx EXCEPT ![w] = c]
                       /\ wpc' = [wpc EXCEPT ![w] = "art_check"]
             [] job.job_type = "source" ->
                  SourcePrelude(w, [c EXCEPT !.src = SourceInfo(job.payload.source_id,
                                                                job.payload.source_table,
                                                                job.payload.limit),
                                             !.cjob = JobIdArg(wjob[w], "")])
             [] job.job_type = "batch" ->
                  /\ ctx' = [ctx EXCEPT ![w] = c]
                  /\ wpc' = [wpc EXCEPT ![w] = "batch_start"]
             [] job.job_type = "multiple_sources" ->
                  /\ ctx' = [ctx EXCEPT ![w] = c]
                  /\ wpc' = [wpc EXCEPT ![w] = "multi_start"]
             [] OTHER ->
                  /\ ctx' = [ctx EXCEPT ![w] = [c EXCEPT !.msg = UnknownTypeMessage]]
                  /\ wpc' = [wpc EXCEPT ![w] = "unknown_type"]
    /\ UNCHANGED <<jobs, claimTx, claimCount, wjob, atBoot, dbvars, storeG, calls, keyV, envV>>

\* process_job after the handler returned: mark_job_done.
MarkDone(w) ==
    /\ wpc[w] = "handler_ok"
    /\ RowFree(wjob[w])
    /\ jobs' = mark_job_done(jobs, wjob[w])
    /\ wpc' = [wpc EXCEPT ![w] = "poll"]
    /\ wjob' = [wjob EXCEPT ![w] = 0]
    /\ ctx' = [ctx EXCEPT ![w] = NoCtx]
    /\ UNCHANGED <<claimTx, claimCount, atBoot, dbvars, storeG, calls, keyV, envV>>

\* process_job after the handler raised: mark_job_error with the message.
MarkError(w) ==
    /\ wpc[w] = "handler_raise"
    /\ RowFree(wjob[w])
    /\ jobs' = mark_job_error(jobs, wjob[w], ctx[w].msg)
    /\ wpc' = [wpc EXCEPT ![w] = "poll"]
    /\ wjob' = [wjob EXCEPT ![w] = 0]
    /\ ctx' = [ctx EXCEPT ![w] = NoCtx]
    /\ UNCHANGED <<claimTx, claimCount, atBoot, dbvars, storeG, calls, keyV, envV>>

\* process_job, the else branch: mark_job_error(job_id, "Unknown job type")
\* and the return.
MarkUnknown(w) ==
    /\ wpc[w] = "unknown_type"
    /\ RowFree(wjob[w])
    /\ jobs' = mark_job_error(jobs, wjob[w], ctx[w].msg)
    /\ wpc' = [wpc EXCEPT ![w] = "poll"]
    /\ wjob' = [wjob EXCEPT ![w] = 0]
    /\ ctx' = [ctx EXCEPT ![w] = NoCtx]
    /\ UNCHANGED <<claimTx, claimCount, atBoot, dbvars, storeG, calls, keyV, envV>>

(***************************************************************************)
(* Article pipeline: process_article_job, one action per store access.     *)
(***************************************************************************)
\* canonicalize_url, check_processed_url, then the content and the
\* classification: from the payload, or from extract_content and classify_content.
ArtCheck(w) ==
    /\ wpc[w] = "art_check"
    /\ LET c == ctx[w]
           p == c.payload
           canonical_url == canonicalize_url(p.url)
           c0 == [c EXCEPT !.canon = canonical_url, !.cls = "none", !.seen = FALSE,
                          !.extracted = FALSE]
           c1 == [c0 EXCEPT !.extracted = ~p.pre]
       IN  IF check_processed_url(processed, canonical_url) # NoStatus
           THEN /\ ctx' = [ctx EXCEPT ![w] = [c0 EXCEPT !.seen = TRUE, !.clean = FALSE]]
                /\ wpc' = [wpc EXCEPT ![w] = "art_done"]
           ELSE \* await extract_content(url) suspends the task
                \E text \in (IF p.pre THEN {p.text}
                              ELSE IF running[w] THEN {"raise", "long", "short"} ELSE {}) :
                \E label \in (IF p.cls # "none" THEN {p.cls}
                              ELSE ClassifyCall(ArticleClassifyArgs)) :
                   IF text = "raise"
                   THEN Raise(w, c1, "Content extraction failed with both methods")
                   ELSE IF label = "TypeError"
                   THEN Raise(w, c1, "classify_content() takes 2 positional arguments")
                   ELSE /\ ctx' = [ctx EXCEPT ![w] = [c1 EXCEPT !.cls = label]]
                        /\ wpc' = [wpc EXCEPT ![w] =
                                     IF label = "trash" \/ text = "short"
                                     THEN "art_trash" ELSE "art_save"]
    /\ UNCHANGED <<jobs, claimTx, claimCount, wjob, atBoot, dbvars, storeG, calls, keyV, envV>>

\* save_processed_url(canonical_url, TRASH)
ArtTrash(w) ==
    /\ wpc[w] = "art_trash"
    /\ LET r == save_processed_url(processed, ctx[w].canon, "TRASH", "unknown")
       IN  /\ processed' = r.table
           /\ IF r.raised
              THEN Raise(w, ctx[w], "Failed to save processed URL")
              ELSE /\ wpc' = [wpc EXCEPT ![w] = "art_done"]
                   /\ UNCHANGED ctx
    /\ UNCHANGED <<jobs, claimTx, claimCount, wjob, atBoot, articles, storeG, calls, keyV, envV>>

\* save_article: INSERT INTO news_articles.
save_article(rows, article) == Append(rows, article)

\* process_article (the summarizer) returns or raises; then save_article.
ArtSave(w) ==
    /\ wpc[w] = "art_save"
    /\ running[w]
    /\ \/ /\ Raise(w, ctx[w], "Article processing failed")
          /\ UNCHANGED articles
       \/ /\ articles' = save_article(articles, [url |-> ctx[w].payload.url,
                                                 url_canonical |-> ctx[w].canon,
                                                 job |-> ctx[w].job])
          /\ wpc' = [wpc EXCEPT ![w] = "art_mark"]
          /\ UNCHANGED ctx
    /\ UNCHANGED <<jobs, claimTx, claimCount, wjob, atBoot, processed, storeG, calls, keyV, envV>>

\* city_for_dedupe: the first part of the city slug of a city classification.
CityForDedupe(label) == IF label = "city" THEN "seattle" ELSE "unknown"

\* save_processed_url(canonical_url, PROCESSED, city_for_dedupe)
ArtMark(w) ==
    /\ wpc[w] = "art_mark"
    /\ LET r == save_processed_url(processed, ctx[w].canon, "PROCESSED",
                                   CityForDedupe(ctx[w].cls))
       IN  /\ processed' = r.table
           /\ IF r.raised
              THEN Raise(w, ctx[w], "Failed to save processed URL")
              ELSE /\ wpc' = [wpc EXCEPT ![w] = "art_done"]
                   /\ UNCHANGED ctx
    /\ UNCHANGED <<jobs, claimTx, claimCount, wjob, atBoot, articles, storeG, calls, keyV, envV>>

\* update_job_status(job_id, DONE), and the return to the caller.
ArtDone(w) ==
    /\ wpc[w] = "art_done"
    /\ RowFree(ctx[w].job)
    /\ jobs' = update_job_status(jobs, ctx[w].job, "done", "")
    /\ IF ctx[w].inline
       THEN /\ ctx' = [ctx EXCEPT ![w] = [@ EXCEPT !.proc = @ + 1, !.inline = FALSE]]
            /\ wpc' = [wpc EXCEPT ![w] = "src_loop"]
       ELSE /\ wpc' = [wpc EXCEPT ![w] = "handler_ok"]
            /\ UNCHANGED ctx
    /\ UNCHANGED <<claimTx, claimCount, wjob, atBoot, dbvars, storeG, calls, keyV, envV>>

(***************************************************************************)
(* Source pipeline: process_source, one action per link and one for the    *)
(* counters.  The job the pipeline runs for is wjob[w].                    *)
(***************************************************************************)
SrcLoop(w) ==
    /\ wpc[w] = "src_loop"
    /\ LET c == ctx[w]
           src == c.src
           skipped == [c EXCEPT !.links = Tail(@), !.skip = @ + 1, !.clean = FALSE]
           failed == [c EXCEPT !.links = Tail(@), !.err = @ + 1, !.clean = FALSE]
       IN  IF c.links = <<>> \/ c.proc + c.skip >= src.limit
           THEN /\ wpc' = [wpc EXCEPT ![w] = "src_finish"]
                /\ UNCHANGED <<ctx, jobs, claimCount, processed>>
           ELSE LET article_url == Head(c.links)
                    canonical_url == canonicalize_url(article_url)
                    trash == save_processed_url(processed, canonical_url, "TRASH", "unknown")
                IN  IF check_processed_url(processed, canonical_url) # NoStatus
                    THEN /\ ctx' = [ctx EXCEPT ![w] = skipped]
                         /\ UNCHANGED <<wpc, jobs, claimCount, processed>>
                    ELSE IF ~is_meaningful_content(article_url)
                    THEN /\ processed' = trash.table
                         /\ ctx' = [ctx EXCEPT ![w] = IF trash.raised THEN failed ELSE skipped]
                         /\ UNCHANGED <<wpc, jobs, claimCount>>
                    ELSE \* await extract_content(article_url) suspends the task
                         \E text \in (IF running[w] THEN {"raise", "empty", "long"}
                                       ELSE {}) :
                         \E label \in ClassifyCall(SourceClassifyArgs) :
                            IF text = "raise"
                            THEN /\ ctx' = [ctx EXCEPT ![w] = failed]
                                 /\ UNCHANGED <<wpc, jobs, claimCount, processed>>
                            ELSE IF text = "empty"
                            THEN \* extract_content returned nothing: the link is dropped
                                 /\ ctx' = [ctx EXCEPT ![w] =
                                              [c EXCEPT !.links = Tail(@), !.clean = FALSE]]
                                 /\ UNCHANGED <<wpc, jobs, claimCount, processed>>
                            ELSE IF label = "trash"
                            THEN /\ processed' = trash.table
                                 /\ ctx' = [ctx EXCEPT ![w] =
                                              IF trash.raised THEN failed ELSE skipped]
                                 /\ UNCHANGED <<wpc, jobs, claimCount>>
                            ELSE \* a failed classification is logged and the link goes on
                                 LET article_payload ==
                                         PreArticle(article_url, src.source_id, text,
                                                    IF label = "TypeError" THEN "none" ELSE label)
                                 IN  /\ jobs' = enqueue_job(jobs, "article", article_payload)
                                     /\ claimCount' = Append(claimCount, 0)
                                     /\ ctx' = [ctx EXCEPT ![w] =
                                                  [c EXCEPT !.links = Tail(@),
                                                            !.clean = @ /\ text = "long",
                                                            !.job = Len(jobs) + 1,
                                                            !.payload = article_payload,
                                                            !.inline = TRUE]]
                                     /\ wpc' = [wpc EXCEPT ![w] = "art_check"]
                                     /\ UNCHANGED processed
    /\ UNCHANGED <<claimTx, wjob, atBoot, articles, storeG, calls, keyV, envV>>

\* update_source_scraped_at: UPDATE ... SET last_scraped_at = now().
update_source_scraped_at(tbl, sid) ==
    IF sid \in DOMAIN tbl THEN [tbl EXCEPT ![sid] = 1] ELSE tbl

\* update_job_counters with the three counts (skipped when int(job_id)
\* raises), update_source_scraped_at for the primary table, then the return.
SrcFinish(w) ==
    /\ wpc[w] = "src_finish"
    /\ LET c == ctx[w]
           job_id_int == ParseJobId(c.cjob)
           primary == c.src.source_table = "bighippo_sources"
       IN  /\ job_id_int \in DOMAIN jobs => RowFree(job_id_int)
           /\ jobs' = IF job_id_int = 0 THEN jobs
                      ELSE update_job_counters(jobs, job_id_int,
                                               [articles_saved |-> c.proc,
                                                links_skipped |-> c.skip,
                                                errors |-> c.err])
           /\ last_scraped_at' = IF primary
                                 THEN update_source_scraped_at(last_scraped_at, c.src.source_id)
                                 ELSE last_scraped_at
           /\ SourceReturn(w, [c EXCEPT !.stamped = primary])
    /\ UNCHANGED <<claimTx, claimCount, wjob, atBoot, dbvars, storeG, calls, keyV,
                   running, resumed, rt, fn>>

(***************************************************************************)
(* Batch pipeline: process_batch.  MAX_CONCURRENT_SOURCES is                *)
(* max(1, min(8, len(DIFFBOT_KEYS) - 1)), which is 1 for the two keys of    *)
(* the model: the sources are processed one after the other.               *)
(***************************************************************************)
RECURSIVE Perms(_)
Perms(S) ==
    IF S = {} THEN {<<>>}
    ELSE UNION {{<<x>> \o q : q \in Perms(S \ {x})} : x \in S}

Take(q, n) == SubSeq(q, 1, IF n < Len(q) THEN n ELSE Len(q))

\* A row of bighippo_sources: last_scraped_at is an hour count, 0 for NULL.
SourceRow(ts, hbp, ver, name) ==
    [last_scraped_at |-> ts, has_been_processed |-> hbp, verified |-> ver, name |-> name]

\* No query filter was given.
NoQuery == "None"

NameLower(t) == CASE t = "Daily" -> "daily" [] t = "Gazette" -> "gazette" [] OTHER -> t

\* name ILIKE %query%, for the one-word names and queries of the model.
ILike(name, query) == NameLower(name) = NameLower(query)

\* ORDER BY last_scraped_at ASC NULLS FIRST LIMIT n over the rows with ids in
\* S: every order the database may give to rows of equal last_scraped_at.
OrderedLimit(rows, S, n) ==
    {Take(q, n) : q \in {o \in Perms(S) :
                           \A i, j \in 1..Len(o) :
                               i < j => rows[o[i]].last_scraped_at <= rows[o[j]].last_scraped_at}}

\* The loop over results1 + results2 with seen_ids.
RECURSIVE DedupIds(_)
DedupIds(q) ==
    IF q = <<>> THEN <<>>
    ELSE LET r == DedupIds(SubSeq(q, 1, Len(q) - 1))
         IN  IF \E i \in 1..Len(r) : r[i] = q[Len(q)] THEN r ELSE Append(r, q[Len(q)])

\* select_sources_for_batch: the rows never scraped, then those whose
\* last_scraped_at is before the value the code names twenty_four_hours_ago,
\* duplicates removed, cut to batch_size.  The result is the tuple of ids.
select_sources_for_batch(rows, batch_size, query, now) ==
    LET twenty_four_hours_ago == now
        Where(x) == /\ rows[x].has_been_processed /\ rows[x].verified
                    /\ query # NoQuery => ILike(rows[x].name, query)
        results1 == OrderedLimit(rows, {x \in DOMAIN rows :
                                           Where(x) /\ rows[x].last_scraped_at = 0},
                                 batch_size)
        results2 == OrderedLimit(rows, {x \in DOMAIN rows :
                                           /\ Where(x) /\ rows[x].last_scraped_at # 0
                                           /\ rows[x].last_scraped_at < twenty_four_hours_ago},
                                 batch_size)
    IN  {Take(DedupIds(q1 \o q2), batch_size) : q1 \in results1, q2 \in results2}

\* bighippo_sources as the queue model keeps it: every row active, scraped at
\* hour 1 or never.
BatchRows == [sid \in SourceIds |-> SourceRow(last_scraped_at[sid], TRUE, TRUE, "Daily")]

\* select_sources_for_batch, the links_found counter, the dry run.
BatchStart(w) ==
    /\ wpc[w] = "batch_start"
    /\ RowFree(wjob[w])
    /\ \E sources \in select_sources_for_batch(BatchRows, ctx[w].payload.batch_size,
                                                 NoQuery, 2) :
         LET counted == update_job_counters(jobs, wjob[w], [links_found |-> Len(sources)])
         IN  IF ctx[w].payload.dry_run
             THEN /\ jobs' = update_job_status(counted, wjob[w], "done", "")
                  /\ wpc' = [wpc EXCEPT ![w] = "handler_ok"]
                  /\ UNCHANGED ctx
             ELSE /\ jobs' = counted
                  /\ ctx' = [ctx EXCEPT ![w] =
                               [@ EXCEPT !.srcs = [i \in 1..Len(sources) |->
                                                     SourceInfo(sources[i], "bighippo_sources",
                                                                BatchSourceLimit)],
                                         !.inbatch = TRUE]]
                  /\ wpc' = [wpc EXCEPT ![w] = "batch_loop"]
    /\ UNCHANGED <<claimTx, claimCount, wjob, atBoot, dbvars, storeG, calls, keyV, envV>>

\* The next process_source_with_semaphore task: process_source(str(source_id),
\* payload); after the last one, update_job_status(job_id, DONE).
BatchLoop(w) ==
    /\ wpc[w] = "batch_loop"
    /\ LET c == ctx[w]
       IN  IF c.srcs = <<>>
           THEN /\ RowFree(wjob[w])
                /\ jobs' = update_job_status(jobs, wjob[w], "done", "")
                /\ ctx' = [ctx EXCEPT ![w] = [c EXCEPT !.inbatch = FALSE]]
                /\ wpc' = [wpc EXCEPT ![w] = "handler_ok"]
           ELSE /\ running[w]
                /\ SourcePrelude(w, [c EXCEPT !.srcs = Tail(@),
                                              !.src = Head(c.srcs),
                                              !.cjob = JobIdArg(0, Head(c.srcs).source_id),
                                              !.links = <<>>, !.total = 0, !.clean = TRUE,
                                              !.proc = 0, !.skip = 0, !.err = 0,
                                              !.stamped = FALSE])
                /\ UNCHANGED jobs
    /\ UNCHANGED <<claimTx, claimCount, wjob, atBoot, dbvars, storeG, calls, keyV, envV>>

\* update_job_counters(job_id, {articles_saved: sources_processed, errors}).
BatchCount(w) ==
    /\ wpc[w] = "batch_count"
    /\ RowFree(wjob[w])
    /\ jobs' = update_job_counters(jobs, wjob[w], [articles_saved |-> ctx[w].sproc,
                                                   errors |-> ctx[w].serr])
    /\ wpc' = [wpc EXCEPT ![w] = "batch_loop"]
    /\ UNCHANGED <<claimTx, claimCount, wjob, ctx, atBoot, dbvars, storeG, calls, keyV, envV>>

(***************************************************************************)
(* Multi-source pipeline: process_multiple_sources.                        *)
(***************************************************************************)
MultiStart(w) ==
    /\ wpc[w] = "multi_start"
    /\ RowFree(wjob[w])
    /\ LET sources == ctx[w].payload.sources
           counted == update_job_counters(jobs, wjob[w], [links_found |-> Len(sources)])
       IN  IF ctx[w].payload.dry_run
           THEN /\ jobs' = update_job_status(counted, wjob[w], "done", "")
                /\ wpc' = [wpc EXCEPT ![w] = "handler_ok"]
                /\ UNCHANGED ctx
           ELSE /\ jobs' = counted
                /\ ctx' = [ctx EXCEPT ![w] = [@ EXCEPT !.srcs = sources]]
                /\ wpc' = [wpc EXCEPT ![w] = "multi_loop"]
    /\ UNCHANGED <<claimTx, claimCount, wjob, atBoot, dbvars, storeG, calls, keyV, envV>>

\* One source of the list: the lookup, then enqueue_job(SOURCE, ...); after
\* the last one, the final update_job_counters.
MultiLoop(w) ==
    /\ wpc[w] = "multi_loop"
    /\ LET c == ctx[w]
       IN  IF c.srcs = <<>>
           THEN /\ RowFree(wjob[w])
                /\ jobs' = update_job_counters(jobs, wjob[w], [articles_saved |-> c.sproc,
                                                               errors |-> c.serr])
                /\ wpc' = [wpc EXCEPT ![w] = "handler_ok"]
                /\ UNCHANGED <<ctx, claimCount>>
           ELSE LET source_info == Head(c.srcs)
                    source_data == get_source_by_id(source_info.source_id,
                                                    source_info.source_table)
                IN  IF ~source_data.found \/ source_data.url = NoUrl
                    THEN /\ ctx' = [ctx EXCEPT ![w] = [c EXCEPT !.srcs = Tail(@),
                                                                !.serr = @ + 1]]
                         /\ UNCHANGED <<jobs, claimCount, wpc>>
                    ELSE /\ jobs' = enqueue_job(jobs, "source",
                                                SourcePayloadIn(source_info.source_id,
                                                                source_info.source_table,
                                                                source_info.limit))
                         /\ claimCount' = Append(claimCount, 0)
                         /\ ctx' = [ctx EXCEPT ![w] = [c EXCEPT !.srcs = Tail(@),
                                                                !.sproc = @ + 1]]
                         /\ UNCHANGED wpc
    /\ UNCHANGED <<claimTx, wjob, atBoot, dbvars, storeG, calls, keyV, envV>>

(***************************************************************************)
(* The system: producers and worker processes on one queue.                *)
(***************************************************************************)
NoSave == [url |-> NoUrl, status |-> "None", city |-> "", existed |-> FALSE,
           raised |-> FALSE, before |-> {}]

KEYS == {"k1", "k2"}

\* No utility function has been called.
NoCall == [name |-> "none", done |-> FALSE]

\* No call through the retry wrapper has started.
NoRetry == [pc |-> "idle", attempt |-> 0, invocations |-> 0, slept |-> <<>>, probes |-> 0,
            errs |-> <<>>, result |-> "none", raised |-> <<>>]

Init ==
    /\ jobs = <<>>
    /\ claimTx = [w \in Workers |-> 0]
    /\ claimCount = <<>>
    /\ wpc = [w \in Workers |-> "down"]
    /\ wjob = [w \in Workers |-> 0]
    /\ ctx = [w \in Workers |-> NoCtx]
    /\ atBoot = [w \in Workers |-> {}]
    /\ processed = {}
    /\ articles = <<>>
    /\ lastSave = NoSave
    /\ inserted = {}
    /\ calls = [w \in Workers |-> 0]
    /\ usage = [k \in KEYS |-> <<>>]
    /\ issued = [k \in KEYS |-> <<>>]
    /\ clock = 0
    /\ kmOut = [c \in Callers |-> "idle"]
    /\ last_scraped_at = [sid \in SourceIds |-> 0]
    /\ running = [w \in Workers |-> TRUE]
    /\ resumed = [w \in Workers |-> FALSE]
    /\ rt = NoRetry
    /\ fn = NoCall

Next ==
    \/ Enqueue
    \/ \E w \in Workers :
         \/ Boot(w)
         \/ SweepSelect(w)
         \/ SweepUpdate(w)
         \/ ClaimSelect(w) /\ UNCHANGED calls
         \/ ClaimCommit(w)
         \/ Dispatch(w)
         \/ ArtCheck(w)
         \/ ArtTrash(w)
         \/ ArtSave(w)
         \/ ArtMark(w)
         \/ ArtDone(w)
         \/ SrcLoop(w)
         \/ SrcFinish(w)
         \/ MarkDone(w)
         \/ MarkError(w)

Spec == Init /\ [][Next]_vars

(***************************************************************************)
(* Shutdown: handle_signal runs when the interpreter has control (not      *)
(* inside the claim statement); it clears the flag and cancels the main    *)
(* task, and arms an alarm that exits the process five seconds later.      *)
(***************************************************************************)
Signal(w) ==
    /\ running[w]
    /\ wpc[w] \notin {"down", "stopped", "claim_tx"}
    /\ running' = [running EXCEPT ![w] = FALSE]
    /\ UNCHANGED <<qvars, dbvars, storeG, calls, keyV, last_scraped_at, resumed, rt, fn>>

\* The worker stops: CancelledError is raised at the await that suspends the
\* main task and leaves process_job, whose except clause does not catch it,
\* or the loop reads running = False, or the alarm calls sys.exit(1).
Stop(w) ==
    /\ ~running[w]
    /\ wpc[w] \notin {"stopped", "claim_tx"}
    /\ wpc' = [wpc EXCEPT ![w] = "stopped"]
    /\ UNCHANGED <<jobs, claimTx, claimCount, wjob, ctx, atBoot, dbvars, storeG, calls,
                   keyV, envV>>

NextShutdown ==
    \/ Enqueue
    \/ \E w \in Workers :
         \/ Boot(w)
         \/ SweepSelect(w)
         \/ SweepUpdate(w)
         \/ ClaimSelect(w) /\ UNCHANGED calls
         \/ ClaimCommit(w)
         \/ Dispatch(w)
         \/ ArtCheck(w)
         \/ ArtTrash(w)
         \/ ArtSave(w)
         \/ ArtMark(w)
         \/ ArtDone(w)
         \/ SrcLoop(w)
         \/ SrcFinish(w)
         \/ MarkDone(w)
         \/ MarkError(w)
         \/ Signal(w)
         \/ Stop(w)

SpecShutdown == Init /\ [][NextShutdown]_vars

(***************************************************************************)
(* Bulk specification: the workers on a queue that holds one BATCH or      *)
(* MULTIPLE_SOURCES job, alone or next to one ARTICLE or SOURCE job.        *)
(***************************************************************************)
BulkJobs == {NewJob("batch", p) : p \in BatchPayloads}
              \cup {NewJob("multiple_sources", p) : p \in MultiPayloads}
PlainJobs == {NewJob("source", p) :
                 p \in SourcePayloads \cup UrlSourcePayloads \cup {UrlOnlySourcePayload}}
               \cup {NewJob("article", ClassifiedArticle(UrlUpper, "city")),
                     NewJob("article", PreArticle(UrlPlain, "none", "long", "trash"))}
BulkQueues == {<<b>> : b \in BulkJobs}
                \cup {<<b, o>> : b \in BulkJobs, o \in PlainJobs}
                \cup {<<o, b>> : b \in BulkJobs, o \in PlainJobs}

InitBulk ==
    /\ jobs \in BulkQueues
    /\ claimTx = [w \in Workers |-> 0]
    /\ claimCount = [j \in DOMAIN jobs |-> 0]
    /\ wpc = [w \in Workers |-> "down"]
    /\ wjob = [w \in Workers |-> 0]
    /\ ctx = [w \in Workers |-> NoCtx]
    /\ atBoot = [w \in Workers |-> {}]
    /\ processed = {}
    /\ articles = <<>>
    /\ lastSave = NoSave
    /\ inserted = {}
    /\ calls = [w \in Workers |-> 0]
    /\ usage = [k \in KEYS |-> <<>>]
    /\ issued = [k \in KEYS |-> <<>>]
    /\ clock = 0
    /\ kmOut = [c \in Callers |-> "idle"]
    /\ last_scraped_at = [sid \in SourceIds |-> 0]
    /\ running = [w \in Workers |-> TRUE]
    /\ resumed = [w \in Workers |-> FALSE]
    /\ rt = NoRetry
    /\ fn = NoCall

NextBulk ==
    \E w \in Workers :
       \/ Boot(w)
       \/ SweepSelect(w)
       \/ SweepUpdate(w)
       \/ ClaimSelect(w) /\ UNCHANGED calls
       \/ ClaimCommit(w)
       \/ Dispatch(w)
       \/ ArtCheck(w)
       \/ ArtTrash(w)
       \/ ArtSave(w)
       \/ ArtMark(w)
       \/ ArtDone(w)
       \/ SrcLoop(w)
       \/ SrcFinish(w)
       \/ BatchStart(w)
       \/ BatchLoop(w)
       \/ BatchCount(w)
       \/ MultiStart(w)
       \/ MultiLoop(w)
       \/ MarkDone(w)
       \/ MarkError(w)

SpecBulk == InitBulk /\ [][NextBulk]_vars

(***************************************************************************)
(* Fan-out specification: the workers on a queue that holds one SOURCE     *)
(* job, to which a producer adds, at any moment, an ARTICLE job for a URL  *)
(* the source page links to or a job of a type the worker does not know.   *)
(***************************************************************************)
MaxLateJobs == 3

LateJobs == {NewJob("article", ClassifiedArticle(UrlUpper, "city")),
             NewJob("report", NoPayload)}

EnqueueSource ==
    /\ jobs = <<>>
    /\ jobs' = enqueue_job(jobs, "source", SourcePayload("s1", 1))
    /\ claimCount' = Append(claimCount, 0)
    /\ UNCHANGED <<claimTx, wpc, wjob, ctx, atBoot, dbvars, storeG, calls, keyV, envV>>

EnqueueLate ==
    /\ jobs # <<>>
    /\ Len(jobs) < MaxLateJobs
    /\ \E j \in LateJobs : jobs' = Append(jobs, j)
    /\ claimCount' = Append(claimCount, 0)
    /\ UNCHANGED <<claimTx, wpc, wjob, ctx, atBoot, dbvars, storeG, calls, keyV, envV>>

NextFanout ==
    \/ EnqueueSource
    \/ EnqueueLate
    \/ \E w \in Workers :
         \/ Boot(w)
         \/ SweepSelect(w)
         \/ SweepUpdate(w)
         \/ ClaimSelect(w) /\ UNCHANGED calls
         \/ ClaimCommit(w)
         \/ Dispatch(w)
         \/ MarkUnknown(w)
         \/ ArtCheck(w)
         \/ ArtTrash(w)
         \/ ArtSave(w)
         \/ ArtMark(w)
         \/ ArtDone(w)
         \/ SrcLoop(w)
         \/ SrcFinish(w)
         \/ MarkDone(w)
         \/ MarkError(w)

SpecFanout == Init /\ [][NextFanout]_vars

(***************************************************************************)
(* Claim-only specification: workers that only call claim() on a queue     *)
(* that holds n QUEUED jobs.                                               *)
(***************************************************************************)
InitClaim ==
    /\ \E n \in 0..MaxQueued :
         /\ jobs = [i \in 1..n |-> NewJob("article", ApiArticle(UrlPlain))]
         /\ claimCount = [i \in 1..n |-> 0]
    /\ claimTx = [w \in Workers |-> 0]
    /\ wpc = [w \in Workers |-> "poll"]
    /\ wjob = [w \in Workers |-> 0]
    /\ ctx = [w \in Workers |-> NoCtx]
    /\ atBoot = [w \in Workers |-> {}]
    /\ processed = {}
    /\ articles = <<>>
    /\ lastSave = NoSave
    /\ inserted = {}
    /\ calls = [w \in Workers |-> 0]
    /\ usage = [k \in KEYS |-> <<>>]
    /\ issued = [k \in KEYS |-> <<>>]
    /\ clock = 0
    /\ kmOut = [c \in Callers |-> "idle"]
    /\ last_scraped_at = [sid \in SourceIds |-> 0]
    /\ running = [w \in Workers |-> TRUE]
    /\ resumed = [w \in Workers |-> FALSE]
    /\ rt = NoRetry
    /\ fn = NoCall

ClaimCall(w) ==
    /\ calls[w] < MaxClaimCalls
    /\ ClaimSelect(w)
    /\ calls' = [calls EXCEPT ![w] = @ + 1]

\* The caller has its result and is free to call claim() again.
ClaimReturn(w) ==
    /\ wpc[w] = "claimed"
    /\ wpc' = [wpc EXCEPT ![w] = "poll"]
    /\ wjob' = [wjob EXCEPT ![w] = 0]
    /\ UNCHANGED <<jobs, claimTx, claimCount, ctx, atBoot, dbvars, storeG, calls, keyV, envV>>

NextClaim == \E w \in Workers : ClaimCall(w) \/ ClaimCommit(w) \/ ClaimReturn(w)

SpecClaim == InitClaim /\ [][NextClaim]_vars

(***************************************************************************)
(* Claim specification with producers.  enqueue_job runs its INSERT and    *)
(* its commit as two statements: the INSERT draws the id from the sequence *)
(* of scrape_jobs, and the row is visible to claim_job only once the       *)
(* transaction has committed.  A row whose insert has not committed has    *)
(* the status "inserting" here.                                            *)
(***************************************************************************)
\* enqueue_job, cur.execute(INSERT ... RETURNING id).
InsertJob ==
    /\ Len(jobs) < MaxQueued
    /\ jobs' = Append(jobs, [NewJob("article", ApiArticle(UrlPlain)) EXCEPT
                                !.status = "inserting"])
    /\ claimCount' = Append(claimCount, 0)
    /\ UNCHANGED <<claimTx, wpc, wjob, ctx, atBoot, dbvars, storeG, calls, keyV, envV>>

\* enqueue_job, conn.commit().
InsertCommit ==
    /\ \E j \in {k \in DOMAIN jobs : jobs[k].status = "inserting"} :
         jobs' = [jobs EXCEPT ![j].status = "queued"]
    /\ UNCHANGED <<claimTx, claimCount, wpc, wjob, ctx, atBoot, dbvars, storeG, calls,
                   keyV, envV>>

NextOrder ==
    \/ InsertJob
    \/ InsertCommit
    \/ \E w \in Workers : ClaimCall(w) \/ ClaimCommit(w) \/ ClaimReturn(w)

SpecOrder == InitClaim /\ [][NextOrder]_vars

(***************************************************************************)
(* Store specification: callers of save_processed_url.                     *)
(***************************************************************************)
SaveProcessed(u, status, city) ==
    LET r == save_processed_url(processed, u, status, city)
        existed == \E row \in processed : row.url = u
    IN  /\ processed' = r.table
        /\ lastSave' = [url |-> u, status |-> status, city |-> city, existed |-> existed,
                        raised |-> r.raised, before |-> processed]
        /\ inserted' = IF ~existed /\ ~r.raised THEN inserted \cup {<<u, status>>} ELSE inserted
        /\ UNCHANGED <<qvars, articles, calls, keyV, envV>>

NextStore ==
    \E u \in CanonUrls : \E status \in {"TRASH", "PROCESSED"} : \E city \in {"unknown", "seattle"} :
        SaveProcessed(u, status, city)

SpecStore == Init /\ [][NextStore]_vars

(***************************************************************************)
(* Diffbot key manager: DiffbotKeyManager.get_key.  The body runs under    *)
(* the manager's lock and reaches no suspension point before it returns or *)
(* raises, so a call is one step.                                          *)
(***************************************************************************)
RATE_LIMIT == 5
WINDOW == 60

SeqMin(ts) == CHOOSE t \in {ts[i] : i \in 1..Len(ts)} : \A i \in 1..Len(ts) : t <= ts[i]
SetMin(S) == CHOOSE t \in S : \A u \in S : t <= u

\* self.usage[key] = [t for t in self.usage[key] if t > one_minute_ago]
PruneUsage(ts, now) == SelectSeq(ts, LAMBDA t : t > now - WINDOW)

\* An availability test that lets a key with 5 calls in the last minute through.
AvailableKeysLoose(u) == {k \in KEYS : Len(u[k]) <= RATE_LIMIT}

\* available_keys: the keys with fewer than 5 calls in the last minute
AvailableKeys(u) == {k \in KEYS : Len(u[k]) < RATE_LIMIT}

\* earliest_available: starts at now and is lowered to min(usage[key]) + 1 minute
EarliestAvailable(u, now) ==
    SetMin({now} \cup {SeqMin(u[k]) + WINDOW : k \in {x \in KEYS : u[x] # <<>>}})

GetKey(c) ==
    LET now == clock
        pruned == [k \in KEYS |-> PruneUsage(usage[k], now)]
        available_keys == AvailableKeys(pruned)
    IN  /\ Len(issued["k1"]) + Len(issued["k2"]) < MaxKeyCalls
        /\ IF available_keys = {}
           THEN IF EarliestAvailable(pruned, now) - now > 0
                THEN \* sleeps with the lock held, then calls get_key again
                     /\ kmOut' = [kmOut EXCEPT ![c] = "waiting"]
                     /\ usage' = pruned
                     /\ UNCHANGED issued
                ELSE \* available_keys[0] of an empty list
                     /\ kmOut' = [kmOut EXCEPT ![c] = "IndexError"]
                     /\ usage' = pruned
                     /\ UNCHANGED issued
           ELSE LET least_usage == SetMin({Len(pruned[k]) : k \in available_keys})
                    least_used_keys == {k \in available_keys : Len(pruned[k]) = least_usage}
                IN  \E selected_key \in least_used_keys :
                       /\ usage' = [pruned EXCEPT ![selected_key] = Append(@, now)]
                       /\ issued' = [issued EXCEPT ![selected_key] = Append(@, now)]
                       /\ kmOut' = [kmOut EXCEPT ![c] = selected_key]
        /\ UNCHANGED <<qvars, dbvars, storeG, calls, clock, envV>>

\* Time passes.
Tick ==
    /\ clock + ClockStep <= MaxClock
    /\ clock' = clock + ClockStep
    /\ UNCHANGED <<qvars, dbvars, storeG, calls, usage, issued, kmOut, envV>>

NextKeys == Tick \/ \E c \in Callers : GetKey(c)

SpecKeys == Init /\ [][NextKeys]_vars

(***************************************************************************)
(* Retry wrapper: retry_with_backoff(max_retries = 3, base_delay = 1.0)     *)
(* around one store operation.  An exception message is a sequence of      *)
(* phrases; the wrapper lower-cases it and looks for substrings.           *)
(***************************************************************************)
max_retries == 3
base_delay == 1

UniqueMarker == "duplicate key value violates unique constraint"
TransientMarkers == {"timeout", "connection", "reset", "network"}

\* str.lower() on the phrases of the model
LowerPhrase(ph) ==
    CASE ph = "Connection" -> "connection"
      [] ph = "TIMEOUT" -> "timeout"
      [] OTHER -> ph

\* error_str = str(e).lower()
LowerMessage(msg) == [i \in DOMAIN msg |-> LowerPhrase(msg[i])]

\* marker in error_str
Contains(error_str, marker) == \E i \in DOMAIN error_str : error_str[i] = marker

\* Exception messages of a store operation: transient faults, a unique
\* violation, a unique violation on a key that holds a transient word, and a
\* message with no marker at all.
Messages ==
    {<<"TIMEOUT">>, <<"Connection", "refused">>, <<"reset">>, <<"network">>,
     <<"syntax">>, <<UniqueMarker>>, <<UniqueMarker, "network">>}

Results == {"row"}

\* A wrapper that looks for the transient markers before the unique marker.
TransientFirstDecision(error_str, attempt) ==
    IF attempt = max_retries THEN "raise"
    ELSE IF \E t \in TransientMarkers : Contains(error_str, t) THEN "retry"
    ELSE "raise"

\* The except clause of the wrapper: what it does with the exception of
\* invocation number attempt.
RetryDecision(error_str, attempt) ==
    IF Contains(error_str, UniqueMarker) THEN "raise"
    ELSE IF attempt = max_retries THEN "raise"
    ELSE IF \E t \in TransientMarkers : Contains(error_str, t) THEN "retry"
    ELSE "raise"

\* A delay that grows by base_delay per attempt.
LinearDelay(attempt) == base_delay * (attempt + 1)

\* delay = base_delay * (2 ** attempt)
RetryDelay(attempt) == base_delay * 2^attempt

\* A caller enters the wrapper: for attempt in range(max_retries + 1).
RetryCall ==
    /\ rt.pc = "idle"
    /\ rt' = [rt EXCEPT !.pc = "invoke"]
    /\ UNCHANGED <<qvars, dbvars, storeG, calls, keyV, last_scraped_at, running, resumed, fn>>

\* One invocation of func: it returns a result or raises.
RetryInvoke ==
    /\ rt.pc = "invoke"
    /\ \/ \E r \in Results :
            rt' = [rt EXCEPT !.invocations = @ + 1, !.result = r, !.pc = "returned"]
       \/ \E e \in Messages :
            LET error_str == LowerMessage(e)
                failed == [rt EXCEPT !.invocations = @ + 1, !.errs = Append(@, e)]
            IN  rt' = IF RetryDecision(error_str, rt.attempt) = "retry"
                      THEN [failed EXCEPT !.pc = "sleep"]
                      ELSE [failed EXCEPT !.pc = "raised", !.raised = e]
    /\ UNCHANGED <<qvars, dbvars, storeG, calls, keyV, last_scraped_at, running, resumed, fn>>

\* time.sleep(delay), then test_connection(), whose failure is swallowed, and
\* the next iteration of the loop.
RetrySleep ==
    /\ rt.pc = "sleep"
    /\ \E probe_ok \in BOOLEAN :
         rt' = [rt EXCEPT !.slept = Append(@, RetryDelay(rt.attempt)),
                          !.probes = @ + 1,
                          !.attempt = @ + 1,
                          !.pc = "invoke"]
    /\ UNCHANGED <<qvars, dbvars, storeG, calls, keyV, last_scraped_at, running, resumed, fn>>

NextRetry == RetryCall \/ RetryInvoke \/ RetrySleep

SpecRetry == Init /\ [][NextRetry]_vars

(***************************************************************************)
(* Function calls: the specifications below start with the arguments of    *)
(* one call of a function in fn, every other variable as in Init, and      *)
(* their one step stores the result.                                       *)
(***************************************************************************)
Quiet ==
    /\ jobs = <<>>
    /\ claimTx = [w \in Workers |-> 0]
    /\ claimCount = <<>>
    /\ wpc = [w \in Workers |-> "down"]
    /\ wjob = [w \in Workers |-> 0]
    /\ ctx = [w \in Workers |-> NoCtx]
    /\ atBoot = [w \in Workers |-> {}]
    /\ processed = {}
    /\ articles = <<>>
    /\ lastSave = NoSave
    /\ inserted = {}
    /\ calls = [w \in Workers |-> 0]
    /\ usage = [k \in KEYS |-> <<>>]
    /\ issued = [k \in KEYS |-> <<>>]
    /\ clock = 0
    /\ kmOut = [c \in Callers |-> "idle"]
    /\ last_scraped_at = [sid \in SourceIds |-> 0]
    /\ running = [w \in Workers |-> TRUE]
    /\ resumed = [w \in Workers |-> FALSE]
    /\ rt = NoRetry

fnRest == <<qvars, dbvars, storeG, calls, keyV, last_scraped_at, running, resumed, rt>>

(***************************************************************************)
(* select_sources_for_batch on a table of three rows.  The call is made at *)
(* hour SelectNow; a row was scraped 38 hours or 18 hours before, or never.*)
(***************************************************************************)
SelectNow == 48
MaxBatch == 3
SelectIds == {"s1", "s2", "s3"}
SelectName(sid) == CASE sid = "s1" -> "Daily" [] sid = "s2" -> "Gazette" [] OTHER -> "daily"
SelectRows ==
    {rows \in [SelectIds -> [last_scraped_at : {0, SelectNow - 38, SelectNow - 18},
                             has_been_processed : BOOLEAN, verified : BOOLEAN,
                             name : {"Daily", "Gazette", "daily"}]] :
        \A sid \in SelectIds : rows[sid].name = SelectName(sid)}

InitSelect ==
    /\ Quiet
    /\ \E rows \in SelectRows, batch_size \in 0..MaxBatch, query \in {NoQuery, "daily"} :
         fn = [name |-> "select_sources_for_batch", done |-> FALSE, rows |-> rows,
               batch_size |-> batch_size, query |-> query, now |-> SelectNow,
               result |-> <<>>]

SelectCall ==
    /\ fn.name = "select_sources_for_batch" /\ ~fn.done
    /\ \E r \in select_sources_for_batch(fn.rows, fn.batch_size, fn.query, fn.now) :
         fn' = [fn EXCEPT !.done = TRUE, !.result = r]
    /\ UNCHANGED fnRest

SpecSelect == InitSelect /\ [][SelectCall]_vars

(***************************************************************************)
(* Date extraction (date_extractor.py).  A datetime is a count of hours;   *)
(* hour 0 is the midnight that began the day of the call.  A date string   *)
(* is the record of what the code reads from it: kind is the relative      *)
(* expression it holds ("hours_ago", "days_ago", "yesterday", "today") or  *)
(* "absolute", n the number the regular expression captures (-1 when it    *)
(* does not match), ok and at what dateutil's parser makes of the string.  *)
(***************************************************************************)
DateNow == 15
WINDOW_PAST_DAYS == 3650
WINDOW_FUTURE_DAYS == 1

DateStr(kind, n, ok, at) == [kind |-> kind, n |-> n, ok |-> ok, at |-> at]
NoStr == DateStr("none", -1, FALSE, 0)
NoneDate == [found |-> FALSE, at |-> 0]
Found(d) == [found |-> TRUE, at |-> d]

\* parser.parse and the test min_past <= parsed_date <= max_future.
ParseInWindow(date_str, now) ==
    LET max_future == now + 24 * WINDOW_FUTURE_DAYS
        min_past == now - 24 * WINDOW_PAST_DAYS
    IN  IF date_str.ok /\ min_past <= date_str.at /\ date_str.at <= max_future
        THEN Found(date_str.at) ELSE NoneDate

parse_diffbot_date(date_str, now) == ParseInWindow(date_str, now)

\* The values of the date fields the metadata holds, in the order of
\* date_fields: the first that parses to a date in the window.
RECURSIVE extract_date_from_metadata(_, _)
extract_date_from_metadata(fields, now) ==
    IF fields = <<>> THEN NoneDate
    ELSE IF ParseInWindow(Head(fields), now).found THEN ParseInWindow(Head(fields), now)
    ELSE extract_date_from_metadata(Tail(fields), now)

parse_ai_extracted_date(date_str, now) ==
    CASE date_str.kind = "hours_ago" /\ date_str.n >= 0 -> Found(now - date_str.n)
      [] date_str.kind = "days_ago" /\ date_str.n >= 0 -> Found(now - 24 * date_str.n)
      [] date_str.kind = "yesterday" -> Found(now - 24)
      [] date_str.kind = "today" -> Found((now \div 24) * 24 + 12)
      [] OTHER -> ParseInWindow(date_str, now)

\* extract_date_priority_system; ai_date_str is what extract_date_with_ai
\* returns when it is called (NoStr for None), metadata.empty an empty dict.
extract_date_priority_system(scraper_type, diffbot_date, content, metadata, ai_date_str, now) ==
    LET failed == [date |-> NoneDate, method |-> "failed"]
        ai == IF content /\ ~metadata.empty /\ ai_date_str # NoStr
              THEN parse_ai_extracted_date(ai_date_str, now) ELSE NoneDate
        algo == IF ~metadata.empty THEN extract_date_from_metadata(metadata.fields, now)
                ELSE NoneDate
    IN  CASE scraper_type = "diffbot" ->
               IF diffbot_date # NoStr /\ parse_diffbot_date(diffbot_date, now).found
               THEN [date |-> parse_diffbot_date(diffbot_date, now), method |-> "diffbot_primary"]
               ELSE IF ai.found THEN [date |-> ai, method |-> "diffbot_ai_fallback"]
               ELSE failed
          [] scraper_type = "playwright" ->
               IF ai.found THEN [date |-> ai, method |-> "playwright_ai_primary"]
               ELSE IF algo.found
                    THEN [date |-> algo, method |-> "playwright_algorithmic_fallback"]
               ELSE failed
          [] OTHER -> failed

\* Strings that hold an absolute date, or nothing dateutil can parse.
AbsoluteStrs ==
    {DateStr("absolute", -1, FALSE, 0)} \cup
    {DateStr("absolute", -1, TRUE, at) :
        at \in {DateNow - 24 * WINDOW_PAST_DAYS - 1, DateNow - 24 * WINDOW_PAST_DAYS, DateNow,
                DateNow + 24 * WINDOW_FUTURE_DAYS, DateNow + 24 * WINDOW_FUTURE_DAYS + 1}}
\* Strings that hold a relative expression: "2 hours ago", "an hour ago"...
RelativeStrs ==
    {DateStr("hours_ago", n, FALSE, 0) : n \in {-1, 2, 24 * WINDOW_PAST_DAYS + 1}} \cup
    {DateStr("hours_ago", -1, TRUE, DateNow)} \cup
    {DateStr("days_ago", n, FALSE, 0) : n \in {-1, 2, WINDOW_PAST_DAYS, WINDOW_PAST_DAYS + 1}} \cup
    {DateStr("yesterday", -1, FALSE, 0), DateStr("today", -1, FALSE, 0)}
MetaFields ==
    LET v == {DateStr("absolute", -1, FALSE, 0), DateStr("absolute", -1, TRUE, DateNow),
              DateStr("absolute", -1, TRUE, DateNow + 24 * WINDOW_FUTURE_DAYS + 1)}
    IN  {<<>>} \cup {<<a>> : a \in v} \cup {<<a, b>> : a \in v, b \in v}
Metadatas == {[empty |-> TRUE, fields |-> <<>>]} \cup {[empty |-> FALSE, fields |-> f] : f \in MetaFields}

InitDates ==
    /\ Quiet
    /\ \E scraper_type \in {"diffbot", "playwright", "other"},
          diffbot_date \in {NoStr} \cup AbsoluteStrs,
          content \in BOOLEAN, metadata \in Metadatas,
          ai_date_str \in {NoStr} \cup AbsoluteStrs \cup RelativeStrs :
         fn = [name |-> "extract_date_priority_system", done |-> FALSE,
               scraper_type |-> scraper_type, diffbot_date |-> diffbot_date,
               content |-> content, metadata |-> metadata, ai_date_str |-> ai_date_str,
               now |-> DateNow, result |-> [date |-> NoneDate, method |-> "none"]]

DateCall ==
    /\ fn.name = "extract_date_priority_system" /\ ~fn.done
    /\ fn' = [fn EXCEPT !.done = TRUE,
                        !.result = extract_date_priority_system(
                                       fn.scraper_type, fn.diffbot_date, fn.content,
                                       fn.metadata, fn.ai_date_str, fn.now)]
    /\ UNCHANGED fnRest

SpecDates == InitDates /\ [][DateCall]_vars

(***************************************************************************)
(* canonicalize_url on one URL, and again on the text it returned.         *)
(***************************************************************************)
MaxQueryLen == 2
QueryPairs == {<<k, v>> : k \in {"a", "id", "utm_source", "utm%5Fsource"},
                          v \in {"", "1", "2", "%23", "%2523", "1%26ref%3D2"}}
Queries == UNION {[1..n -> QueryPairs] : n \in 0..MaxQueryLen}
CanonInputs ==
    [scheme : {"http", "HTTP"},
     netloc : {<<"a", "co">>, <<"WWW", "A", "co">>, <<"www", "www", "a", "co">>},
     path : {<<>>, <<"">>, <<"x">>, <<"x", "">>},
     query : Queries,
     fragment : {"", "f"}]

InitCanon ==
    /\ Quiet
    /\ \E url \in CanonInputs :
         fn = [name |-> "canonicalize_url", done |-> FALSE, calls |-> 0, url |-> url,
               result |-> NoUrl, again |-> NoUrl]

\* canonical_url = canonicalize_url(url)
CanonCall ==
    /\ fn.name = "canonicalize_url" /\ fn.calls = 0
    /\ fn' = [fn EXCEPT !.calls = 1, !.result = Reparse(canonicalize_url(fn.url))]
    /\ UNCHANGED fnRest

\* canonicalize_url(canonical_url)
CanonAgain ==
    /\ fn.name = "canonicalize_url" /\ fn.calls = 1
    /\ fn' = [fn EXCEPT !.calls = 2, !.done = TRUE,
                        !.again = Reparse(canonicalize_url(fn.result))]
    /\ UNCHANGED fnRest

NextCanon == CanonCall \/ CanonAgain

SpecCanon == InitCanon /\ [][NextCanon]_vars

(***************************************************************************)
(* is_valid_article_url on one URL and one base URL.                       *)
(***************************************************************************)
ValidPaths ==
    LET first == SECTION_PATHS \cup {"x", "NEWS", "CivicAlerts.aspx", "civicalerts.aspx",
                                     "doc.pdf", "careers", "city-news", "departments"}
    IN  {<<>>, <<"">>, <<"x", "doc.pdf">>, <<"x", "civicalerts.aspx">>, <<"x", "home">>}
          \cup {<<t>> : t \in first} \cup {<<t, "x">> : t \in first}
          \cup {<<t, "">> : t \in first}
ValidInputs ==
    [scheme : {"http", "https", "HTTP"},
     netloc : {<<"a", "co">>, <<"www", "a", "co">>, <<"b", "a", "co">>, <<"cdn", "a", "co">>,
               <<"other", "org">>, <<"campaign-archive", "com">>,
               <<"us1", "campaign-archive", "com">>, <<"city", "gov">>,
               <<"facebook", "com">>},
     path : ValidPaths,
     query : {<<>>, << <<"id", "1">> >>, << <<"print", "1">> >>},
     fragment : {"", "f"}]
ValidBases == {<<"a", "co">>, <<"www", "a", "co">>, <<"city", "gov">>,
               <<"campaign-archive", "com">>}

InitValid ==
    /\ Quiet
    /\ \E url \in ValidInputs, base_netloc \in ValidBases :
         fn = [name |-> "is_valid_article_url", done |-> FALSE, url |-> url,
               base_netloc |-> base_netloc, result |-> FALSE]

ValidCall ==
    /\ fn.name = "is_valid_article_url" /\ ~fn.done
    /\ fn' = [fn EXCEPT !.done = TRUE,
                        !.result = is_valid_article_url(fn.url, fn.base_netloc)]
    /\ UNCHANGED fnRest

SpecValid == InitValid /\ [][ValidCall]_vars

(***************************************************************************)
(* process_batch and its tasks.  fn holds the locals of one call that is   *)
(* past the selection: the semaphore's value, one task per selected        *)
(* source, the two counts, and what the call has written to its job row.   *)
(* A task is "pending" until it has entered the semaphore, "running"       *)
(* while process_source runs (it is suspended at an await, so the tasks    *)
(* interleave), and "done" after it has written the counters and released. *)
(***************************************************************************)
MaxBatchSources == 9

KeyCounts == {0, 1, 2, 3, 10}

\* A width that is one permit per key.
OnePerKey(num_keys) == IF num_keys > 1 THEN num_keys ELSE 1

\* max(1, min(8, len(config.DIFFBOT_KEYS) - 1))
MAX_CONCURRENT_SOURCES(num_keys) ==
    LET m == IF num_keys - 1 < 8 THEN num_keys - 1 ELSE 8
    IN  IF m > 1 THEN m ELSE 1

InitBatchTasks ==
    /\ Quiet
    /\ \E num_keys \in KeyCounts, n \in 0..MaxBatchSources :
         fn = [name |-> "process_batch", done |-> FALSE, num_keys |-> num_keys,
               semaphore |-> MAX_CONCURRENT_SOURCES(num_keys),
               task |-> [i \in 1..n |-> "pending"], started |-> [i \in 1..n |-> 0],
               sources_processed |-> 0, errors |-> 0,
               job |-> [status |-> "in_progress", links_found |-> n,
                        articles_saved |-> 0, errors |-> 0]]

\* async with semaphore: the task passes when the value is positive, and
\* calls process_source.
TaskEnter(i) ==
    /\ fn.name = "process_batch" /\ ~fn.done
    /\ fn.task[i] = "pending"
    /\ fn.semaphore > 0
    /\ fn' = [fn EXCEPT !.semaphore = @ - 1, !.task[i] = "running", !.started[i] = @ + 1]
    /\ UNCHANGED fnRest

\* process_source returned or raised: the count, update_job_counters, and
\* the release of the semaphore.
TaskExit(i) ==
    /\ fn.name = "process_batch" /\ ~fn.done
    /\ fn.task[i] = "running"
    /\ \E raised \in BOOLEAN :
         LET sources_processed == fn.sources_processed + (IF raised THEN 0 ELSE 1)
             errors == fn.errors + (IF raised THEN 1 ELSE 0)
         IN  fn' = [fn EXCEPT !.sources_processed = sources_processed, !.errors = errors,
                              !.job.articles_saved = sources_processed,
                              !.job.errors = errors,
                              !.semaphore = @ + 1, !.task[i] = "done"]
    /\ UNCHANGED fnRest

\* await asyncio.gather(*tasks) returns; update_job_status(job_id, DONE).
GatherReturn ==
    /\ fn.name = "process_batch" /\ ~fn.done
    /\ \A i \in DOMAIN fn.task : fn.task[i] = "done"
    /\ fn' = [fn EXCEPT !.done = TRUE, !.job.status = "done"]
    /\ UNCHANGED fnRest

NextBatchTasks ==
    \/ \E i \in DOMAIN fn.task : TaskEnter(i) \/ TaskExit(i)
    \/ GatherReturn

SpecBatchTasks == InitBatchTasks /\ [][NextBatchTasks]_vars

(***************************************************************************)
(* The polling loop of main() and its failure counter.  fn holds the       *)
(* module's consecutive_failures, the wait_time of the last sleep, and     *)
(* what the last iteration did: before is the counter at its start, last   *)
(* its outcome, refreshes the refresh_connection calls it made, forced     *)
(* whether one of them was the full refresh of the safety check.  An error *)
(* is of the connection class when its message holds timeout, connection,  *)
(* reset or network.                                                       *)
(***************************************************************************)
MaxIterations == 8

max_consecutive_failures == 5
WORKER_POLL_INTERVAL == 2

Pow2(n) == IF n = 0 THEN 1 ELSE IF n = 1 THEN 2 ELSE IF n = 2 THEN 4
           ELSE IF n = 3 THEN 8 ELSE 16

InitMain ==
    /\ Quiet
    /\ fn = [name |-> "main", done |-> FALSE, iterations |-> 0, consecutive_failures |-> 0,
             before |-> 0, last |-> "start", wait_time |-> 0, refreshes |-> 0,
             forced |-> FALSE]

\* The start of an iteration: while running, job = await claim_job().
Iterate(f) == [f EXCEPT !.iterations = @ + 1, !.before = f.consecutive_failures,
                        !.refreshes = 0, !.forced = FALSE]

\* claim_job returns a job and process_job returns.
MainJob ==
    /\ fn.name = "main" /\ fn.iterations < MaxIterations
    /\ fn' = [Iterate(fn) EXCEPT !.consecutive_failures = 0, !.last = "job"]
    /\ UNCHANGED fnRest

\* claim_job finds no job; the loop sleeps.
MainIdle ==
    /\ fn.name = "main" /\ fn.iterations < MaxIterations
    /\ fn' = [Iterate(fn) EXCEPT
                 !.consecutive_failures = 0, !.last = "idle",
                 !.wait_time = MinOf(WORKER_POLL_INTERVAL * (1 + 0), 60)]
    /\ UNCHANGED fnRest

\* The rpc raises inside claim_job, whose except clause counts the failure,
\* refreshes the connection from the third connection failure on and
\* returns None; the loop then sleeps as for an empty queue.
MainClaimFails ==
    /\ fn.name = "main" /\ fn.iterations < MaxIterations
    /\ \E connection \in BOOLEAN :
         LET consecutive_failures == fn.consecutive_failures + 1
         IN  fn' = [Iterate(fn) EXCEPT
                      !.consecutive_failures = consecutive_failures,
                      !.last = IF connection THEN "claim_connection" ELSE "claim_other",
                      !.refreshes = IF connection /\ consecutive_failures >= 3 THEN 1 ELSE 0,
                      !.wait_time = MinOf(WORKER_POLL_INTERVAL * (1 + consecutive_failures),
                                          60)]
    /\ UNCHANGED fnRest

\* An exception reaches the except clause of the loop: claim_job has
\* returned a job (and cleared the counter) and process_job raised before
\* its own try.  full_refresh is what the refresh of the safety check does
\* when it is reached: it returns, or it times out.
MainLoopFails ==
    /\ fn.name = "main" /\ fn.iterations < MaxIterations
    /\ \E connection \in BOOLEAN, full_refresh \in {"returns", "timeout"} :
         LET consecutive_failures == 0 + 1
             light == connection /\ consecutive_failures >= 3
             full == consecutive_failures >= max_consecutive_failures
         IN  fn' = [Iterate(fn) EXCEPT
                      !.consecutive_failures =
                          IF full /\ full_refresh = "returns" THEN 0
                          ELSE consecutive_failures,
                      !.last = IF connection THEN "loop_connection" ELSE "loop_other",
                      !.refreshes = (IF light THEN 1 ELSE 0) + (IF full THEN 1 ELSE 0),
                      !.forced = full,
                      !.wait_time =
                          IF connection
                          THEN MinOf(WORKER_POLL_INTERVAL
                                       * Pow2(MinOf(consecutive_failures, 4)), 120)
                          ELSE WORKER_POLL_INTERVAL]
    /\ UNCHANGED fnRest

NextMain == MainJob \/ MainIdle \/ MainClaimFails \/ MainLoopFails

SpecMain == InitMain /\ [][NextMain]_vars

(***************************************************************************)
(* Properties.                                                             *)
(***************************************************************************)
RECURSIVE SumOver(_, _)
SumOver(f, S) ==
    IF S = {} THEN 0
    ELSE LET x == CHOOSE y \in S : TRUE IN f[x] + SumOver(f, S \ {x})

\* C1: under concurrent claim() calls on a queue of n QUEUED jobs no job is
\* returned to two callers, the k calls made return min(k, n) distinct jobs
\* (a call whose transaction is still open holds the row it will return), and
\* every returned job is IN_PROGRESS.
C1_ClaimsDistinct ==
    /\ \A j \in DOMAIN jobs : claimCount[j] <= 1
    /\ \A w1, w2 \in Workers : (w1 # w2 /\ wjob[w1] # 0) => wjob[w1] # wjob[w2]
    /\ \A j \in DOMAIN jobs : claimCount[j] = 1 => jobs[j].status = "in_progress"
    /\ SumOver(claimCount, DOMAIN jobs) + Cardinality(LockedRows)
         = MinOf(SumOver(calls, Workers), Len(jobs))

\* The claim transactions of all workers are open at once, each holding a row
\* of its own, after an earlier claim has already returned a job.
C1_Witness ==
    /\ \A w \in Workers : wpc[w] = "claim_tx"
    /\ Cardinality(LockedRows) = NumWorkers
    /\ \E j \in DOMAIN jobs : claimCount[j] = 1

\* C2: a job whose status is DONE, ERROR or CANCELLED keeps that status in
\* every step of the workers (claim, finish, startup sweep).
C2_TerminalNeverExited ==
    [][\A j \in DOMAIN jobs :
          jobs[j].status \in Terminal => jobs'[j].status = jobs[j].status]_vars

\* C3: every status change is QUEUED to IN_PROGRESS by a claim, IN_PROGRESS to
\* DONE or ERROR, or a change to CANCELLED made by a startup sweep, and a job
\* that becomes DONE or ERROR has been claimed before.
C3_StateMachine ==
    [][\A j \in DOMAIN jobs :
          LET a == jobs[j].status
              b == jobs'[j].status
          IN  a # b =>
                /\ \/ a = "queued" /\ b = "in_progress" /\ claimCount'[j] = claimCount[j] + 1
                   \/ a = "in_progress" /\ b \in {"done", "error"}
                   \/ b = "cancelled" /\ \E w \in Workers :
                                            wpc[w] = "sweep_update" /\ wpc'[w] = "poll"
                /\ b \in {"done", "error"} => claimCount[j] > 0]_vars

\* C4: when the startup sweep of a worker booted without --resume-jobs is over,
\* every job it found QUEUED or IN_PROGRESS is CANCELLED with the restart
\* message, and no worker dispatches one of those jobs to a handler afterwards.
C4_SweepCancelsBeforeWork ==
    [][\A w \in Workers :
          /\ (wpc[w] \in {"sweep_select", "sweep_update"} /\ wpc'[w] = "poll") =>
                \A j \in atBoot'[w] : /\ jobs'[j].status = "cancelled"
                                      /\ jobs'[j].error_message = RestartMessage
          /\ (wpc[w] = "claimed" /\ wpc'[w] # "claimed") =>
                \A w2 \in Workers :
                   wpc[w2] \notin {"down", "sweep_select", "sweep_update"} =>
                      wjob[w] \notin atBoot[w2]]_vars

\* C5: for every key, every 60-second window that starts at one of its
\* issuances holds at most 5 issuances of that key.
C5_RateLimit ==
    \A k \in KEYS : \A i \in 1..Len(issued[k]) :
        Cardinality({j \in 1..Len(issued[k]) :
                        /\ issued[k][j] >= issued[k][i]
                        /\ issued[k][j] < issued[k][i] + 60}) <= 5

\* A key has been handed out more than 5 times, and every key is at its limit.
C5_Witness ==
    /\ \E k \in KEYS : Len(issued[k]) > 5
    /\ \A k \in KEYS : Len(usage[k]) = 5

\* C6: a get_key call made when every key has 5 issuances in the trailing 60
\* seconds does not fail.
C6_SaturatedAcquireDoesNotFail ==
    \A c \in Callers : kmOut[c] # "IndexError"

C8_SaveThenCheck ==
    /\ (lastSave.url # NoUrl /\ ~lastSave.existed /\ ~lastSave.raised) =>
          check_processed_url(processed, lastSave.url) = lastSave.status
    /\ \A p \in inserted : check_processed_url(processed, p[1]) = p[2]

\* The last save inserted a TRASH row and an earlier one a PROCESSED row.
C8_Witness ==
    /\ lastSave.url # NoUrl /\ ~lastSave.existed /\ ~lastSave.raised
    /\ lastSave.status = "TRASH"
    /\ \E p \in inserted : p[2] = "PROCESSED"

\* C9: save_processed_url for a URL that already has a row does not raise and
\* leaves the table, so the row's status and city, as it was.
C9_SecondSaveNoChange ==
    lastSave.existed => (~lastSave.raised /\ processed = lastSave.before)

\* The last save named a URL whose row holds another status and another city.
C9_Witness ==
    /\ lastSave.existed
    /\ \E r \in processed : /\ r.url = lastSave.url
                            /\ r.processing_status # SaveStatusMap(lastSave.status)
                            /\ r.city # lastSave.city

C11_SeenUrlEndsDone ==
    [][\A w \in Workers :
          /\ ( /\ wpc[w] = "art_check" /\ wpc'[w] # "art_check"
               /\ \E r \in processed : /\ r.url = canonicalize_url(ctx[w].payload.url)
                                       /\ r.processing_status \in {"trash", "processed"} )
             => /\ wpc'[w] = "art_done"
                /\ ctx'[w].seen /\ ~ctx'[w].extracted /\ ctx'[w].cls = "none"
                /\ dbvars' = dbvars
          /\ (ctx[w].seen /\ wpc[w] = "art_done" /\ wpc'[w] # "art_done")
             => /\ dbvars' = dbvars
                /\ jobs'[ctx[w].job].status = "done"
          /\ ( /\ ctx[w].seen /\ wpc[w] = "handler_ok" /\ wpc'[w] # "handler_ok"
               /\ jobs[wjob[w]].job_type = "article" )
             => /\ dbvars' = dbvars
                /\ jobs'[wjob[w]].status = "done"]_vars

\* A claimed job for HTTP://WWW.a.co/x/#f has returned early because
\* http://a.co/x was in the table, and the job is DONE.
C11_Witness ==
    \E w \in Workers :
        /\ wpc[w] = "handler_ok" /\ ctx[w].seen /\ ~ctx[w].inline
        /\ jobs[wjob[w]].job_type = "article"
        /\ jobs[wjob[w]].payload.url = UrlUpper
        /\ jobs[wjob[w]].status = "done"
        /\ \E r \in processed : r.url = UrlPlain

\* C12: a SOURCE job with limit L whose page gave at least L links, every
\* link handled so far unseen, valid and extracted with content, ends with L
\* articles saved for the source, the other links left in the list,
\* articles_saved = L, links_skipped = 0 and errors = 0.
C12_LimitReached ==
    \A w \in Workers :
        ( /\ wpc[w] = "handler_ok"
          /\ jobs[wjob[w]].job_type = "source"
          /\ ctx[w].clean
          /\ ctx[w].total >= jobs[wjob[w]].payload.limit )
        => LET L == jobs[wjob[w]].payload.limit
               sid == jobs[wjob[w]].payload.source_id
           IN  /\ jobs[wjob[w]].articles_saved = L
               /\ jobs[wjob[w]].links_skipped = 0
               /\ jobs[wjob[w]].errors = 0
               /\ Len(ctx[w].links) = ctx[w].total - L
               /\ Cardinality({i \in DOMAIN articles :
                                  jobs[articles[i].job].payload.source_id = sid}) = L

\* C13: every counter of every job (links_found, links_skipped,
\* articles_saved, errors) is non-negative, and no step of any handler lowers
\* one.
C13_CountersMonotone ==
    [][\A j \in DOMAIN jobs : \A f \in Counters :
          /\ jobs[j][f] >= 0
          /\ jobs'[j][f] >= 0
          /\ jobs'[j][f] >= jobs[j][f]]_vars

\* A BATCH job of two sources is DONE after process_batch wrote its counters
\* once at the start and once after each source.
C13_Witness ==
    \E j \in DOMAIN jobs :
        /\ jobs[j].job_type = "batch" /\ jobs[j].status = "done"
        /\ jobs[j].links_found = 2
        /\ jobs[j].articles_saved + jobs[j].errors = 2
        /\ jobs[j].articles_saved >= 1

\* C14: a step that changes a counter of job J is a step of the worker that
\* executes J; the source pipelines a BATCH job runs inline write to no job
\* at all, their job_id being the source's UUID.
C14_CountersOfOwnJobOnly ==
    [][\A j \in DOMAIN jobs :
          (\E f \in Counters : jobs'[j][f] # jobs[j][f])
          => \E w \in Workers : wjob[w] = j /\ wpc'[w] # wpc[w]]_vars

\* A BATCH job has run a source pipeline inline to its end, with links that
\* were counted, while the queue holds another job.
C14_Witness ==
    \E w \in Workers :
        /\ wpc[w] = "batch_count" /\ ctx[w].inbatch /\ ctx[w].stamped
        /\ ctx[w].skip + ctx[w].err > 0
        /\ jobs[wjob[w]].job_type = "batch"
        /\ \E j \in DOMAIN jobs : j < wjob[w] /\ jobs[j].job_type = "source"

\* C15: while a worker executes a SOURCE job, the job's persisted
\* articles_saved, links_skipped and errors equal the counts of the work the
\* pipeline has done so far.
C15_CountersTrackWork ==
    \A w \in Workers :
        (wjob[w] # 0 /\ jobs[wjob[w]].job_type = "source" /\ wpc[w] = "src_loop")
        => /\ jobs[wjob[w]].articles_saved = ctx[w].proc
           /\ jobs[wjob[w]].links_skipped = ctx[w].skip
           /\ jobs[wjob[w]].errors = ctx[w].err

\* The message, lower-cased, holds one of the transient markers.
IsTransient(e) == \E t \in TransientMarkers : Contains(LowerMessage(e), t)
\* The message, lower-cased, holds the unique-constraint-violation marker.
IsUnique(e) == Contains(LowerMessage(e), UniqueMarker)

\* What C16 says of the failures in the set Retried: the operation is invoked
\* at most max_retries + 1 times; the sleeps are 1, 2 and 4 seconds; a
\* failure of Retried that is not the last allowed invocation is followed by
\* a sleep and another invocation; a success ends the call with its result;
\* the failure of the last allowed invocation propagates.
RetryContract(Retried) ==
    /\ rt.invocations <= max_retries + 1
    /\ rt.slept = SubSeq(<<1, 2, 4>>, 1, Len(rt.slept))
    /\ \A i \in DOMAIN rt.errs :
          (i <= max_retries /\ rt.errs[i] \in Retried)
          => \/ Len(rt.slept) >= i /\ (rt.invocations > i \/ rt.pc = "invoke")
             \/ rt.pc = "sleep" /\ i = Len(rt.errs)
    /\ rt.pc = "returned" => rt.result \in Results /\ rt.invocations = Len(rt.errs) + 1
    /\ Len(rt.errs) = max_retries + 1
          => rt.pc = "raised" /\ rt.raised = rt.errs[max_retries + 1]

\* C16 (amended): an operation that fails with a message holding a transient
\* marker and not the unique-constraint-violation marker is invoked again
\* after sleeping 1, 2, 4 seconds, at most 3 times; the first success is
\* returned and the fourth failure propagates.
C16_TransientRetried ==
    RetryContract({e \in Messages : IsTransient(e) /\ ~IsUnique(e)})

\* Three transient failures, three sleeps, and the fourth invocation returned.
C16_Witness ==
    /\ rt.pc = "returned" /\ rt.invocations = max_retries + 1
    /\ rt.slept = <<1, 2, 4>>
    /\ \A i \in DOMAIN rt.errs : IsTransient(rt.errs[i])

\* C16 as stated: every failure whose message holds a transient marker is
\* retried.
C16_AnyTransientRetried ==
    RetryContract({e \in Messages : IsTransient(e)})

\* C17: a failure whose message holds the unique-constraint-violation marker,
\* or no transient marker, is the last invocation: the exception propagates
\* with no sleep, no probe and no invocation after it; as a first failure it
\* leaves the operation invoked exactly once.
C17_PermanentOnce ==
    \A i \in DOMAIN rt.errs :
        (IsUnique(rt.errs[i]) \/ ~IsTransient(rt.errs[i]))
        => /\ i = Len(rt.errs) /\ rt.invocations = i
           /\ rt.pc = "raised" /\ rt.raised = rt.errs[i]
           /\ Len(rt.slept) = i - 1 /\ rt.probes = i - 1

\* A unique violation on a key that holds the word network was raised by the
\* first invocation and propagated.
C17_Witness ==
    /\ rt.pc = "raised" /\ rt.invocations = 1
    /\ rt.errs = << <<UniqueMarker, "network">> >>
    /\ rt.slept = <<>> /\ rt.probes = 0

C19_ResumeChangesNoJob ==
    [][\A w \in Workers :
          /\ (wpc[w] = "down" /\ wpc'[w] # "down" /\ resumed'[w])
             => /\ jobs' = jobs
                /\ wpc'[w] = "poll" /\ running'[w]
                /\ (\E j \in DOMAIN jobs : jobs[j].status = "queued" /\ j \notin LockedRows)
                   => ClaimCandidate(jobs', LockedRows') # 0
          /\ resumed[w]
             => /\ wpc[w] \notin {"sweep_select", "sweep_update"}
                /\ wpc'[w] \notin {"sweep_select", "sweep_update"}
                /\ atBoot'[w] = {}]_vars

\* A worker started with --resume-jobs, as the only worker started, holds a
\* job it has claimed, and no job is CANCELLED.
C19_Witness ==
    \E w \in Workers :
        /\ resumed[w] /\ wpc[w] = "claimed" /\ wjob[w] # 0
        /\ jobs[wjob[w]].status = "in_progress"
        /\ \A v \in Workers \ {w} : wpc[v] = "down"
        /\ \A j \in DOMAIN jobs : jobs[j].status # "cancelled"

\* C20: a SOURCE job on bighippo_sources that is DONE has set the
\* last_scraped_at of its source.
C20_DoneSourceStamped ==
    \A j \in DOMAIN jobs :
        ( /\ jobs[j].job_type = "source" /\ jobs[j].status = "done"
          /\ jobs[j].payload.source_table = "bighippo_sources"
          /\ jobs[j].payload.source_id \in DOMAIN last_scraped_at )
        => last_scraped_at[jobs[j].payload.source_id] # 0

\* C21: select_sources_for_batch(n, filter) returns at most n sources with
\* pairwise distinct ids, those never scraped first; every returned source
\* is active, and was never scraped or was scraped more than 24 hours ago.
C21_SelectsStaleSources ==
    (fn.name = "select_sources_for_batch" /\ fn.done) =>
        LET r == fn.result
            row(i) == fn.rows[r[i]]
        IN  /\ Len(r) <= fn.batch_size
            /\ \A i, j \in 1..Len(r) : i # j => r[i] # r[j]
            /\ \A i, j \in 1..Len(r) :
                  (i < j /\ row(j).last_scraped_at = 0) => row(i).last_scraped_at = 0
            /\ \A i \in 1..Len(r) :
                  /\ row(i).has_been_processed /\ row(i).verified
                  /\ \/ row(i).last_scraped_at = 0
                     \/ row(i).last_scraped_at < fn.now - 24

\* C22: every date the cascade returns lies between 3650 days before now
\* and 1 day after now, whether it came from the engine's date field, the
\* metadata, an absolute string or a relative expression.
C22_DateInWindow ==
    (fn.name = "extract_date_priority_system" /\ fn.done /\ fn.result.date.found) =>
        /\ fn.now - 24 * 3650 <= fn.result.date.at
        /\ fn.result.date.at <= fn.now + 24

C24_FailedClassificationIsTrash ==
    [][\A w \in Workers :
          /\ (wpc[w] = "src_loop" /\ wpc'[w] = "art_check" /\ ctx'[w].payload.cls = "none")
             => /\ Len(jobs') = Len(jobs)
                /\ \E r \in processed' :
                      /\ r.url = canonicalize_url(Head(ctx[w].links))
                      /\ r.processing_status = "trash"
          /\ ( /\ wpc[w] = "art_check" /\ wpc'[w] = "handler_raise"
               /\ ctx'[w].msg = "classify_content() takes 2 positional arguments" )
             => /\ \E r \in processed' :
                      r.url = ctx'[w].canon /\ r.processing_status = "trash"
                /\ articles' = articles]_vars

\* The source row a SOURCE payload names is missing or has no URL.  (A
\* payload that names no source is the case of C39.)
BadSource(p) ==
    /\ p.source_id # "none"
    /\ \/ ~get_source_by_id(p.source_id, p.source_table).found
       \/ get_source_by_id(p.source_id, p.source_table).url = NoUrl

C26_PreExtractedNoCalls ==
    [][\A w \in Workers :
          /\ (wpc[w] = "src_loop" /\ wpc'[w] = "art_check") => ctx'[w].payload.pre
          /\ ( /\ wpc[w] = "art_check" /\ wpc'[w] # "art_check"
               /\ ctx[w].payload.pre /\ ~ctx'[w].seen )
             => /\ ~ctx'[w].extracted
                /\ ctx[w].payload.cls # "none" /\ ctx'[w].cls = ctx[w].payload.cls
                /\ wpc'[w] \in {"art_trash", "art_save"}]_vars

\* C27: canonicalize_url is idempotent: applied to the URL it returned it
\* returns the same URL, for every scheme and host case, www prefix,
\* trailing slashes, fragment, and query with repeated, blank and
\* percent-encoded keys and values.
C27_CanonicalizeIdempotent ==
    (fn.name = "canonicalize_url" /\ fn.calls = 2) => fn.again = fn.result

\* C28: for a URL whose path is empty or "/" canonicalize_url returns the
\* scheme and host with no path: http://a.co, http://a.co/, http://www.a.co
\* and http://a.co#f all give http://a.co, and http://a.co?id=1 gives
\* http://a.co?id=1.
C28_RootHasNoPath ==
    (fn.name = "canonicalize_url" /\ fn.calls >= 1 /\ fn.url.path \in {<<>>, <<"">>})
    => /\ fn.result.path = <<>>
       /\ (fn.url.scheme = "http" /\ fn.url.netloc \in {<<"a", "co">>, <<"WWW", "A", "co">>}
             /\ fn.url.query \in {<<>>, << <<"id", "1">> >>})
          => fn.result = [scheme |-> "http", netloc |-> <<"a", "co">>, path |-> <<>>,
                          query |-> fn.url.query, fragment |-> ""]

\* C29: is_valid_article_url accepts every http or https URL whose path
\* holds civicalerts.aspx or whose host is campaign-archive.com (and that
\* has no fragment), whatever the other rules would decide.
C29_SpecialCasesAccepted ==
    ( /\ fn.name = "is_valid_article_url" /\ fn.done
      /\ fn.url.scheme \in {"http", "https"} /\ fn.url.fragment = ""
      /\ \/ \E i \in 1..Len(fn.url.path) : LowerTok(fn.url.path[i]) = "civicalerts.aspx"
         \/ fn.url.netloc = <<"campaign-archive", "com">> )
    => fn.result

\* C30: for every section root s a URL whose path is s is rejected, and a
\* URL of the base's host, with no query and no fragment, whose path is s
\* followed by one further non-empty segment is accepted.
C30_SectionRootAndArticle ==
    ( /\ fn.name = "is_valid_article_url" /\ fn.done
      /\ Len(fn.url.path) >= 1 /\ fn.url.path[1] \in SECTION_PATHS )
    => /\ Len(fn.url.path) = 1 => ~fn.result
       /\ ( /\ Len(fn.url.path) = 2 /\ fn.url.path[2] = "x"
            /\ fn.url.scheme \in {"http", "https"}
            /\ fn.url.netloc = <<"a", "co">> /\ fn.base_netloc = <<"a", "co">>
            /\ fn.url.query = <<>> /\ fn.url.fragment = "" )
          => fn.result

\* C31: a claim() call takes the committed QUEUED job with the lowest id
\* among those no other claim has locked, its commit sets exactly that job
\* to IN_PROGRESS and returns it, every other job staying as it is; with no
\* such job the call returns nothing and changes nothing.
C31_ClaimLowestQueued ==
    [][\A w \in Workers :
         LET visible == {j \in DOMAIN jobs :
                            /\ jobs[j].status = "queued"
                            /\ \A v \in Workers \ {w} : claimTx[v] # j}
         IN  /\ (calls'[w] = calls[w] + 1 /\ visible # {}) =>
                   /\ wpc'[w] = "claim_tx"
                   /\ claimTx'[w] \in visible
                   /\ \A k \in visible : claimTx'[w] <= k
                   /\ jobs' = jobs
             /\ (wpc[w] = "claim_tx" /\ wpc'[w] = "claimed") =>
                   /\ wjob'[w] = claimTx[w]
                   /\ jobs[claimTx[w]].status = "queued"
                   /\ jobs'[claimTx[w]] = [jobs[claimTx[w]] EXCEPT !.status = "in_progress"]
                   /\ DOMAIN jobs' = DOMAIN jobs
                   /\ \A k \in DOMAIN jobs \ {claimTx[w]} : jobs'[k] = jobs[k]
             /\ (calls'[w] = calls[w] + 1 /\ visible = {}) =>
                   /\ jobs' = jobs /\ wjob' = wjob /\ claimTx' = claimTx /\ wpc' = wpc
      ]_vars

\* A claim has returned a job while a job with a lower id is locked by the
\* open claim of the other worker, and another claim found nothing to take.
C31_Witness ==
    \E w, v \in Workers :
        /\ wpc[w] = "claimed" /\ claimTx[v] # 0 /\ claimTx[v] < wjob[w]
        /\ calls[w] + calls[v] > Cardinality({j \in DOMAIN jobs : jobs[j].status # "inserting"})

\* C31, as stated: the jobs a single worker claims have increasing ids.
C31_SingleWorkerIncreasing ==
    [][\A w \in Workers :
         ( /\ wpc[w] = "claim_tx" /\ wpc'[w] = "claimed"
           /\ \A v \in Workers \ {w} : calls[v] = 0 )
         => \A j \in DOMAIN jobs : claimCount[j] >= 1 => j < claimTx[w]
      ]_vars

C33_BoundedConcurrency ==
    fn.name = "process_batch" =>
        LET executing == Cardinality({i \in DOMAIN fn.task : fn.task[i] = "running"})
            fewer == IF fn.num_keys - 1 < 8 THEN fn.num_keys - 1 ELSE 8
        IN  /\ executing <= (IF fewer > 1 THEN fewer ELSE 1)
            /\ \A i \in DOMAIN fn.task : fn.started[i] <= 1
            /\ fn.job.status = "done" => \A i \in DOMAIN fn.task : fn.started[i] = 1

\* With ten keys eight pipelines are executing and a ninth task waits at
\* the semaphore.
C33_Witness ==
    /\ fn.name = "process_batch" /\ fn.num_keys = 10
    /\ Cardinality({i \in DOMAIN fn.task : fn.task[i] = "running"}) = 8
    /\ \E i \in DOMAIN fn.task : fn.task[i] = "pending"

\* C34: a BATCH job that is not a dry run is never handed to the error
\* path; a source whose pipeline raises (here: its row has no URL) adds one
\* to the errors count and one whose pipeline returns adds one to the
\* processed count; and when the worker finishes the job it is DONE with
\* articles_saved + errors = links_found = the number of selected sources.
C34_BatchCountsSources ==
    [][\A w \in Workers :
          (wjob[w] # 0 /\ jobs[wjob[w]].job_type = "batch"
             /\ ~jobs[wjob[w]].payload.dry_run)
          => /\ wpc'[w] # "handler_raise"
             /\ ( /\ wpc[w] = "batch_loop" /\ wpc'[w] = "batch_count"
                  /\ get_source_by_id(Head(ctx[w].srcs).source_id,
                                      Head(ctx[w].srcs).source_table).url = NoUrl )
                => ctx'[w].serr = ctx[w].serr + 1 /\ ctx'[w].sproc = ctx[w].sproc
             /\ (wpc[w] = "src_finish" /\ wpc'[w] = "batch_count")
                => ctx'[w].sproc = ctx[w].sproc + 1 /\ ctx'[w].serr = ctx[w].serr
             /\ (wpc[w] = "handler_ok" /\ wpc'[w] # "handler_ok")
                => LET job == jobs'[wjob[w]]
                   IN  /\ job.status = "done"
                       /\ job.articles_saved + job.errors = job.links_found
                       /\ job.links_found = Cardinality(SourceIds)
                       /\ job.errors >= 1]_vars

\* A BATCH job is DONE after one of its two sources completed and the
\* other raised.
C34_Witness ==
    \E j \in DOMAIN jobs :
        /\ jobs[j].job_type = "batch" /\ ~jobs[j].payload.dry_run
        /\ jobs[j].status = "done" /\ \A w \in Workers : wjob[w] # j
        /\ jobs[j].articles_saved = 1 /\ jobs[j].errors = 1

\* C35: a MULTIPLE_SOURCES job that is not a dry run enqueues one QUEUED
\* SOURCE job, and changes no other job, for a listed source whose row
\* exists and has a URL, adds one to errors and enqueues nothing for a
\* listed source that is missing or has no URL, runs no source pipeline
\* itself, and is finished DONE with articles_saved + errors = the number
\* of listed sources, articles_saved being the number of usable sources.
C35_MultiEnqueuesSources ==
    [][\A w \in Workers :
          (wjob[w] # 0 /\ jobs[wjob[w]].job_type = "multiple_sources"
             /\ ~jobs[wjob[w]].payload.dry_run)
          => LET listed == jobs[wjob[w]].payload.sources
                 Usable(si) == \/ si.source_table = "bighippo_sources" /\ si.source_id = "s1"
                               \/ si.source_table = "city_sources" /\ si.source_id = "c7"
                 usable == Cardinality({i \in DOMAIN listed : Usable(listed[i])})
             IN  /\ wpc'[w] \in {"claimed", "multi_start", "multi_loop", "handler_ok", "poll"}
                 /\ ( /\ wpc[w] = "multi_loop" /\ ctx'[w] # ctx[w]
                      /\ Usable(Head(ctx[w].srcs)) )
                    => /\ Len(jobs') = Len(jobs) + 1
                       /\ \A j \in DOMAIN jobs : jobs'[j] = jobs[j]
                       /\ jobs'[Len(jobs')].job_type = "source"
                       /\ jobs'[Len(jobs')].status = "queued"
                       /\ jobs'[Len(jobs')].payload.source_id = Head(ctx[w].srcs).source_id
                       /\ jobs'[Len(jobs')].payload.source_table
                            = Head(ctx[w].srcs).source_table
                       /\ ctx'[w].serr = ctx[w].serr
                 /\ ( /\ wpc[w] = "multi_loop" /\ ctx'[w] # ctx[w]
                      /\ ~Usable(Head(ctx[w].srcs)) )
                    => jobs' = jobs /\ ctx'[w].serr = ctx[w].serr + 1
                 /\ (wpc[w] = "handler_ok" /\ wpc'[w] # "handler_ok")
                    => LET job == jobs'[wjob[w]]
                       IN  /\ job.status = "done"
                           /\ job.articles_saved = usable
                           /\ job.articles_saved + job.errors = Len(listed)]_vars

\* A MULTIPLE_SOURCES job that lists a usable source, one with no URL and a
\* missing one is DONE, and the SOURCE job it enqueued is still QUEUED.
C35_Witness ==
    \E j \in DOMAIN jobs :
        /\ jobs[j].job_type = "multiple_sources" /\ ~jobs[j].payload.dry_run
        /\ jobs[j].status = "done" /\ \A w \in Workers : wjob[w] # j
        /\ jobs[j].articles_saved = 1 /\ jobs[j].errors = 2
        /\ \E k \in DOMAIN jobs : k > 2 /\ jobs[k].job_type = "source"
                                     /\ jobs[k].status = "queued"

\* C36: when an iteration of the polling loop brings the failure counter
\* to 5, the full connection refresh runs in that iteration and the
\* counter is back below 5 when the worker polls again, for a failure in
\* claim_job as for one in the loop; and an error that is not of the
\* connection class adds one to the counter and is followed by a sleep of
\* the plain poll interval.
C36_ThresholdForcesRefresh ==
    fn.name = "main" =>
        /\ fn.consecutive_failures < 5
        /\ (fn.last \in {"claim_connection", "claim_other", "loop_connection", "loop_other"}
              /\ fn.before + 1 = 5) => fn.forced
        /\ fn.last = "claim_other" => fn.consecutive_failures \in {fn.before + 1, 0}
        /\ fn.last \in {"claim_other", "loop_other"} => fn.wait_time = 2

\* C37: while a source pipeline runs, inline, the ARTICLE job it has just
\* enqueued, no claim() takes that job and no other worker holds it.
C37_FanoutRunsOnce ==
    \A w \in Workers :
        ctx[w].inline =>
            /\ ctx[w].job \notin LockedRows
            /\ \A v \in Workers \ {w} : wjob[v] # ctx[w].job /\ ctx[v].job # ctx[w].job

\* C38: when a source pipeline finishes, every ARTICLE job that the source
\* pipelines of its worker enqueued for its source is DONE or ERROR, the
\* other worker never having started.
C38_FanoutJobsFinished ==
    [][\A w \in Workers :
          ( /\ wpc[w] = "src_finish" /\ wpc'[w] # "src_finish"
            /\ \A v \in Workers \ {w} : wpc[v] = "down" )
          => \A j \in DOMAIN jobs :
                ( /\ jobs[j].job_type = "article" /\ jobs[j].payload.pre
                  /\ jobs[j].payload.source_id = ctx[w].src.source_id )
                => jobs'[j].status \in {"done", "error"}]_vars

====
